---------------------------- MODULE Spec2Model ----------------------------
(***************************************************************************)
(* Model of the table hygiene (TableRefiner, src/src/data_core/            *)
(* adjustments.py) and of the date + hour timestamp synthesis              *)
(* (Preference_Date_And_Hour, src/src/intelligence/columns/time.py).       *)
(*                                                                         *)
(* A DataFrame is a record [index, cols]: index is the sequence of row     *)
(* labels, cols the sequence of columns, each [name, dtype, vals] with     *)
(* Len(vals) = Len(index).  A cell is a record tagged by k: "na" (NaN,     *)
(* None, NaT, pd.NA), "str" (v: the sequence of its characters), "int"     *)
(* (n), "ts" (t: seconds since 2024-01-01 00:00:00).                       *)
(***************************************************************************)
EXTENDS Integers, Sequences, FiniteSets, TLC

VARIABLES
    table,      \* self.table of the object under test
    columns,    \* TableRefiner.columns
    before,     \* the table the last call was made on
    op,         \* the last method called
    args,       \* its arguments
    err,        \* the exception it raised, or NoError
    ret,        \* its return value where that is not the table
    given,      \* the frame object handed to the constructor, as it is now
    files,      \* the paths of the files written
    session     \* st.session_state of the driver

vars == <<table, columns, before, op, args, err, ret, given, files, session>>

----------------------------------------------------------------------------
(* Bounds of the checked instances.                                        *)

MaxRows == 3
MaxCols == 2
MaxCells == 6
MaxTallRows == 8
MaxKeepRows == 1
MaxShiftRows == 3
MaxTextLen == 3
MaxRunLen == 7
MaxParts == 4
MaxSynthRows == 2
MaxDetectCols == 3
MaxPipeRows == 3
MaxAutoCols == 2
MaxNameLen == 3
MaxFiles == 1

\* pd.Timedelta(minutes=15), in seconds
QuarterHour == 900

----------------------------------------------------------------------------
(* Cells and strings.                                                      *)

NA == [k |-> "na"]
Str(s) == [k |-> "str", v |-> s]
Int_(n) == [k |-> "int", n |-> n]
Ts(t) == [k |-> "ts", t |-> t]

NoError == [type |-> "none"]
NoArgs == [none |-> TRUE]
NoRet == [none |-> TRUE]

\* st.session_state where no driver runs
NoSession == [none |-> TRUE]

Whitespace == {" "}

\* pd.isna(x) on a scalar
IsNa(x) == x.k = "na"

RECURSIVE LStrip(_)
LStrip(s) ==
    IF s # <<>> /\ Head(s) \in Whitespace THEN LStrip(Tail(s)) ELSE s

RECURSIVE RStrip(_)
RStrip(s) ==
    IF s # <<>> /\ s[Len(s)] \in Whitespace
    THEN RStrip(SubSeq(s, 1, Len(s) - 1))
    ELSE s

\* str.strip()
Strip(s) == RStrip(LStrip(s))

\* _cell_is_empty of drop_trailing_empty_rows and of drop_empty_columns
CellIsEmpty(x) ==
    \/ IsNa(x)
    \/ (x.k = "str" /\ Strip(x.v) = <<>>)

----------------------------------------------------------------------------
(* DataFrame primitives.                                                   *)

NRows(t) == Len(t.index)
NCols(t) == Len(t.cols)

\* DataFrame.empty: no rows or no columns
IsEmptyFrame(t) == NRows(t) = 0 \/ NCols(t) = 0

\* list(table.columns)
ColumnNames(t) == [j \in 1..NCols(t) |-> t.cols[j].name]

HasColumn(t, c) == \E j \in 1..NCols(t) : t.cols[j].name = c

ColPos(t, c) == CHOOSE j \in 1..NCols(t) : t.cols[j].name = c

CellAt(t, i, j) == t.cols[j].vals[i]

\* the elements of s at the positions in keep, in order
RECURSIVE Pick(_, _, _)
Pick(s, keep, i) ==
    IF i > Len(s) THEN <<>>
    ELSE (IF i \in keep THEN <<s[i]>> ELSE <<>>) \o Pick(s, keep, i + 1)

\* row selection by position (boolean mask / iloc slice), labels kept
TakeRows(t, keep) ==
    [index |-> Pick(t.index, keep, 1),
     cols  |-> [j \in 1..NCols(t) |->
                  [t.cols[j] EXCEPT !.vals = Pick(@, keep, 1)]]]

\* column selection by position (.loc[:, mask])
TakeCols(t, keep) == [t EXCEPT !.cols = Pick(@, keep, 1)]

\* DataFrame.dropna(axis=1, how="all"): keep the columns with a non-NA cell
DropnaColumns(t) ==
    TakeCols(t, {j \in 1..NCols(t) :
                    \E i \in 1..NRows(t) : ~IsNa(CellAt(t, i, j))})

\* DataFrame.dropna(axis=0, how="all"): keep the rows with a non-NA cell
DropnaRows(t) ==
    TakeRows(t, {i \in 1..NRows(t) :
                    \E j \in 1..NCols(t) : ~IsNa(CellAt(t, i, j))})

----------------------------------------------------------------------------
(* TableRefiner.                                                           *)

\* applymap(_cell_is_empty).all(axis=1), as the set of masked positions
EmptyRowMask(t) ==
    {i \in 1..NRows(t) : \A j \in 1..NCols(t) : CellIsEmpty(CellAt(t, i, j))}

\* applymap(_cell_is_empty).all(axis=0), as the set of masked positions
EmptyColMask(t) ==
    {j \in 1..NCols(t) : \A i \in 1..NRows(t) : CellIsEmpty(CellAt(t, i, j))}

SetMax(S) == CHOOSE m \in S : \A x \in S : x <= m

DropTrailingEmptyRows(t) ==
    IF IsEmptyFrame(t) THEN t
    ELSE LET mask == EmptyRowMask(t)
             nonEmpty == (1..NRows(t)) \ mask
         IN  IF mask = {} THEN t
             ELSE IF nonEmpty = {} THEN TakeRows(t, {})
             ELSE TakeRows(t, 1..SetMax(nonEmpty))

DropEmptyColumns(t) ==
    IF IsEmptyFrame(t) THEN t
    ELSE LET mask == EmptyColMask(t)
         IN  IF mask # {} THEN TakeCols(t, (1..NCols(t)) \ mask) ELSE t

\* the row steps before the column steps
CleanTableRowsFirst(t) ==
    DropEmptyColumns(DropnaColumns(DropTrailingEmptyRows(DropnaRows(t))))

CleanTable(t) ==
    DropTrailingEmptyRows(DropnaRows(DropEmptyColumns(DropnaColumns(t))))

\* only the first absent name is reported
MissingColumnsFirstOnly(t, momentCol, consumptionCol) ==
    IF ~HasColumn(t, momentCol) THEN <<momentCol>>
    ELSE IF ~HasColumn(t, consumptionCol) THEN <<consumptionCol>>
    ELSE <<>>

\* the names among (moment_col, consumption_col) that are not columns
MissingColumns(t, momentCol, consumptionCol) ==
    Pick(<<momentCol, consumptionCol>>,
         {p \in 1..2 : ~HasColumn(t, <<momentCol, consumptionCol>>[p])}, 1)

\* table[[moment_col, consumption_col]].copy()
KeepOnly(t, momentCol, consumptionCol) ==
    [t EXCEPT !.cols = <<t.cols[ColPos(t, momentCol)],
                         t.cols[ColPos(t, consumptionCol)]>>]

\* Timestamp.minute, of a timestamp counted in seconds
MinuteOfHour(t) == (t \div 60) % 60

\* an hour taken off instead of a quarter of an hour
MinusOneHour(x) == IF IsNa(x) THEN x ELSE Ts(x.t - 4 * QuarterHour)

\* s - pd.Timedelta(minutes=15), cell by cell (NaT stays NaT)
Minus15Minutes(x) == IF IsNa(x) THEN x ELSE Ts(x.t - QuarterHour)

\* pd.api.types.is_datetime64_ns_dtype(s.dtype)
IsDatetime64NsDtype(dtype) == dtype = "datetime64[ns]"

\* the rule read on the last two rows instead of the first and the last
ShiftMomentLastTwoRows(t, momentCol) ==
    IF IsEmptyFrame(t) \/ ~HasColumn(t, momentCol) THEN t
    ELSE LET j == ColPos(t, momentCol)
             s == t.cols[j]
             n == NRows(t)
             firstVal == s.vals[IF n > 1 THEN n - 1 ELSE 1]
             lastVal == s.vals[n]
         IN  IF ~IsDatetime64NsDtype(s.dtype) THEN t
             ELSE IF IsNa(firstVal) \/ IsNa(lastVal) THEN t
             ELSE IF MinuteOfHour(firstVal.t) = 15 /\ MinuteOfHour(lastVal.t) = 0
                  THEN [t EXCEPT !.cols[j].vals =
                           [i \in 1..NRows(t) |-> Minus15Minutes(s.vals[i])]]
                  ELSE t

ShiftMoment(t, momentCol) ==
    IF IsEmptyFrame(t) THEN t
    ELSE IF ~HasColumn(t, momentCol) THEN t
    ELSE LET j == ColPos(t, momentCol)
             s == t.cols[j]
             firstVal == s.vals[1]
             lastVal == s.vals[NRows(t)]
         IN  IF ~IsDatetime64NsDtype(s.dtype) THEN t
             ELSE IF IsNa(firstVal) \/ IsNa(lastVal) THEN t
             ELSE IF MinuteOfHour(firstVal.t) = 15 /\ MinuteOfHour(lastVal.t) = 0
                  THEN [t EXCEPT !.cols[j].vals =
                           [i \in 1..NRows(t) |-> Minus15Minutes(s.vals[i])]]
                  ELSE t

----------------------------------------------------------------------------
(* Strings of Preference_Date_And_Hour: str(), re.sub, split, int() and    *)
(* the formats.  Timestamps lie in the days 2024-01-01 .. 2024-01-09.      *)

DigitSeq == <<"0", "1", "2", "3", "4", "5", "6", "7", "8", "9">>

IsDigit(c) == \E i \in 1..Len(DigitSeq) : DigitSeq[i] = c

DigitVal(c) == (CHOOSE i \in 1..Len(DigitSeq) : DigitSeq[i] = c) - 1

\* str.isdigit()
IsDigits(s) == s # <<>> /\ \A i \in 1..Len(s) : IsDigit(s[i])

\* int(s) of a digit string
RECURSIVE ToInt(_)
ToInt(s) ==
    IF s = <<>> THEN 0
    ELSE ToInt(SubSeq(s, 1, Len(s) - 1)) * 10 + DigitVal(s[Len(s)])

\* str(n) of an integer
RECURSIVE NatToStr(_)
NatToStr(n) ==
    IF n < 10 THEN <<DigitSeq[n + 1]>>
    ELSE NatToStr(n \div 10) \o <<DigitSeq[(n % 10) + 1]>>

IntToStr(n) == IF n < 0 THEN <<"-">> \o NatToStr(-n) ELSE NatToStr(n)

\* f"{n:02d}" and strftime's %H, %M, %S, %d
Pad2(n) == IF n < 10 THEN <<"0">> \o NatToStr(n) ELSE NatToStr(n)

SecondsPerDay == 86400

\* strftime("%Y-%m-%d") of the day d days after 2024-01-01
DateStr(d) == <<"2", "0", "2", "4", "-", "0", "1", "-">> \o Pad2(d + 1)

\* f"{h:02d}:{m:02d}:{sec:02d}"
FormatHMS(h, m, sec) == Pad2(h) \o <<":">> \o Pad2(m) \o <<":">> \o Pad2(sec)

\* strftime("%H:%M:%S") of a timestamp
TimeStr(t) ==
    LET sod == t % SecondsPerDay
    IN  FormatHMS(sod \div 3600, (sod \div 60) % 60, sod % 60)

\* str(v) of a cell that is not missing
PyStr(x) ==
    CASE x.k = "str" -> x.v
      [] x.k = "int" -> IntToStr(x.n)
      [] x.k = "ts"  -> DateStr(x.t \div SecondsPerDay) \o <<" ">> \o TimeStr(x.t)

RECURSIVE DropNonDigits(_)
DropNonDigits(s) ==
    IF s # <<>> /\ ~IsDigit(Head(s)) THEN DropNonDigits(Tail(s)) ELSE s

\* re.sub(r"[^\d]+", ":", txt)
RECURSIVE SubNonDigitRuns(_)
SubNonDigitRuns(s) ==
    IF s = <<>> THEN <<>>
    ELSE IF IsDigit(Head(s)) THEN <<Head(s)>> \o SubNonDigitRuns(Tail(s))
    ELSE <<":">> \o SubNonDigitRuns(DropNonDigits(Tail(s)))

\* re.sub(r":+", ":", txt2)
RECURSIVE CollapseColons(_)
CollapseColons(s) ==
    IF Len(s) < 2 THEN s
    ELSE IF s[1] = ":" /\ s[2] = ":" THEN CollapseColons(Tail(s))
    ELSE <<Head(s)>> \o CollapseColons(Tail(s))

\* .strip(":")
RECURSIVE StripColons(_)
StripColons(s) ==
    IF s # <<>> /\ Head(s) = ":" THEN StripColons(Tail(s))
    ELSE IF s # <<>> /\ s[Len(s)] = ":"
         THEN StripColons(SubSeq(s, 1, Len(s) - 1))
         ELSE s

HasColon(s) == \E i \in 1..Len(s) : s[i] = ":"

\* txt2.split(":")
RECURSIVE SplitColon(_)
SplitColon(s) ==
    IF ~HasColon(s) THEN <<s>>
    ELSE LET p == CHOOSE i \in 1..Len(s) :
                      s[i] = ":" /\ \A q \in 1..(i - 1) : s[q] # ":"
         IN  <<SubSeq(s, 1, p - 1)>> \o SplitColon(SubSeq(s, p + 1, Len(s)))

\* a run of three digits read as HH M
DigitRunFieldsHHM(digits) ==
    CASE Len(digits) = 6 ->
            <<SubSeq(digits, 1, 2), SubSeq(digits, 3, 4), SubSeq(digits, 5, 6)>>
      [] Len(digits) = 4 ->
            <<SubSeq(digits, 1, 2), SubSeq(digits, 3, 4), <<"0", "0">> >>
      [] Len(digits) = 3 ->
            <<SubSeq(digits, 1, 2), SubSeq(digits, 3, 3), <<"0", "0">> >>
      [] Len(digits) \in {1, 2} -> <<digits, <<"0", "0">>, <<"0", "0">> >>
      [] OTHER -> <<>>

\* hh, mm, ss of a digit run, by its length (<<>>: none)
DigitRunFields(digits) ==
    CASE Len(digits) = 6 ->
            <<SubSeq(digits, 1, 2), SubSeq(digits, 3, 4), SubSeq(digits, 5, 6)>>
      [] Len(digits) = 4 ->
            <<SubSeq(digits, 1, 2), SubSeq(digits, 3, 4), <<"0", "0">> >>
      [] Len(digits) = 3 ->
            <<SubSeq(digits, 1, 1), SubSeq(digits, 2, 3), <<"0", "0">> >>
      [] Len(digits) \in {1, 2} -> <<digits, <<"0", "0">>, <<"0", "0">> >>
      [] OTHER -> <<>>

Min(a, b) == IF a < b THEN a ELSE b

\* the fields clamped into their ranges instead of rejected
ValidatedHMSClamped(h, m, sec) ==
    Str(FormatHMS(Min(h, 23), Min(m, 59), Min(sec, 59)))

\* the range check and the formatted result
ValidatedHMS(h, m, sec) ==
    IF ~(0 <= h /\ h <= 23 /\ 0 <= m /\ m <= 59 /\ 0 <= sec /\ sec <= 59)
    THEN NA
    ELSE Str(FormatHMS(h, m, sec))

\* _to_hhmmss
ToHHMMSS(v) ==
    IF IsNa(v) THEN NA
    ELSE LET txt == Strip(PyStr(v))
         IN  IF txt = <<>> THEN NA
             ELSE LET txt2 == StripColons(CollapseColons(SubNonDigitRuns(txt)))
                      parts == IF HasColon(txt2) THEN SplitColon(txt2)
                               ELSE <<txt2>>
                      fields ==
                          IF Len(parts) = 1
                          THEN IF ~IsDigits(parts[1]) THEN <<>>
                               ELSE DigitRunFields(parts[1])
                          ELSE IF Len(parts) = 2
                               THEN <<parts[1], parts[2], <<"0", "0">> >>
                               ELSE <<parts[1], parts[2], parts[3]>>
                  IN  IF fields = <<>> THEN NA
                      ELSE IF \E f \in 1..3 : ~IsDigits(fields[f]) THEN NA
                      ELSE ValidatedHMS(ToInt(fields[1]), ToInt(fields[2]),
                                        ToInt(fields[3]))

\* pd.api.types.is_datetime64_any_dtype(s)
IsDatetime64AnyDtype(dtype) == dtype = "datetime64[ns]"

\* pd.api.types.is_string_dtype(s) or pd.api.types.is_object_dtype(s)
IsStringOrObjectDtype(dtype) == dtype \in {"object", "string"}

\* the value of an ISO date text YYYY-MM-DD within the days of the model
IsIsoDate(s) == \E d \in 0..8 : s = DateStr(d)

IsoDateOf(s) == CHOOSE d \in 0..8 : s = DateStr(d)

\* pd.to_datetime(s, errors="coerce"), cell by cell, on a column that holds
\* missing values, timestamps and text (ISO dates or text that is no date)
ParseDateCell(x) ==
    CASE x.k = "na" -> NA
      [] x.k = "ts" -> x
      [] x.k = "str" ->
            IF IsIsoDate(x.v) THEN Ts(IsoDateOf(x.v) * SecondsPerDay) ELSE NA

\* .dt.normalize().dt.strftime("%Y-%m-%d").astype("string"), cell by cell
DateCellToString(x) ==
    IF IsNa(x) THEN NA ELSE Str(DateStr(x.t \div SecondsPerDay))

\* .dt.strftime("%H:%M:%S").astype("string"), cell by cell
TimeCellToString(x) == IF IsNa(x) THEN NA ELSE Str(TimeStr(x.t))

\* self.table[c] = values: column c replaced in place, or appended
SetColumn(t, c, dtype, vals) ==
    IF HasColumn(t, c)
    THEN [t EXCEPT !.cols[ColPos(t, c)] =
             [name |-> c, dtype |-> dtype, vals |-> vals]]
    ELSE [t EXCEPT !.cols = Append(@, [name |-> c, dtype |-> dtype, vals |-> vals])]

MapCells(vals, F(_)) == [i \in 1..Len(vals) |-> F(vals[i])]

CountNotNa(vals) == Cardinality({i \in 1..Len(vals) : ~IsNa(vals[i])})

\* a text column of which nothing parses becomes a column of missing values
DetectDateDtypeNeverFatal(t, dateCol) ==
    IF ~HasColumn(t, dateCol)
    THEN [table |-> t, err |-> [type |-> "KeyError", missing |-> <<dateCol>>]]
    ELSE LET s == t.cols[ColPos(t, dateCol)]
         IN  IF IsDatetime64AnyDtype(s.dtype)
             THEN [table |-> SetColumn(t, dateCol, "string",
                                       MapCells(s.vals, DateCellToString)),
                   err |-> NoError]
             ELSE IF IsStringOrObjectDtype(s.dtype)
             THEN [table |-> SetColumn(t, dateCol, "string",
                       MapCells(MapCells(s.vals, ParseDateCell), DateCellToString)),
                   err |-> NoError]
             ELSE [table |-> t, err |-> [type |-> "TypeError"]]

\* any cell that does not parse makes the step fail
DetectDateDtypePartialFatal(t, dateCol) ==
    IF ~HasColumn(t, dateCol)
    THEN [table |-> t, err |-> [type |-> "KeyError", missing |-> <<dateCol>>]]
    ELSE LET s == t.cols[ColPos(t, dateCol)]
         IN  IF IsDatetime64AnyDtype(s.dtype)
             THEN [table |-> SetColumn(t, dateCol, "string",
                                       MapCells(s.vals, DateCellToString)),
                   err |-> NoError]
             ELSE IF IsStringOrObjectDtype(s.dtype)
             THEN LET parsed == MapCells(s.vals, ParseDateCell)
                  IN  IF CountNotNa(parsed) < CountNotNa(s.vals)
                      THEN [table |-> t, err |-> [type |-> "ValueError"]]
                      ELSE [table |-> SetColumn(t, dateCol, "string",
                                       MapCells(parsed, DateCellToString)),
                            err |-> NoError]
             ELSE [table |-> t, err |-> [type |-> "TypeError"]]

\* detect_date_dtype: [table, err]
DetectDateDtype(t, dateCol) ==
    IF ~HasColumn(t, dateCol)
    THEN [table |-> t, err |-> [type |-> "KeyError", missing |-> <<dateCol>>]]
    ELSE LET s == t.cols[ColPos(t, dateCol)]
         IN  IF IsDatetime64AnyDtype(s.dtype)
             THEN [table |-> SetColumn(t, dateCol, "string",
                                       MapCells(s.vals, DateCellToString)),
                   err |-> NoError]
             ELSE IF IsStringOrObjectDtype(s.dtype)
             THEN LET parsed == MapCells(s.vals, ParseDateCell)
                  IN  IF CountNotNa(parsed) = 0 /\ CountNotNa(s.vals) > 0
                      THEN [table |-> t, err |-> [type |-> "ValueError"]]
                      ELSE [table |-> SetColumn(t, dateCol, "string",
                                       MapCells(parsed, DateCellToString)),
                            err |-> NoError]
             ELSE [table |-> t, err |-> [type |-> "TypeError"]]

\* normalize_hour_column: [table, err]
NormalizeHourColumn(t, hourCol) ==
    IF ~HasColumn(t, hourCol)
    THEN [table |-> t, err |-> [type |-> "KeyError", missing |-> <<hourCol>>]]
    ELSE LET s == t.cols[ColPos(t, hourCol)]
         IN  IF IsDatetime64AnyDtype(s.dtype)
             THEN [table |-> SetColumn(t, hourCol, "string",
                                       MapCells(s.vals, TimeCellToString)),
                   err |-> NoError]
             ELSE IF IsStringOrObjectDtype(s.dtype)
             THEN [table |-> SetColumn(t, hourCol, "string",
                                       MapCells(s.vals, ToHHMMSS)),
                   err |-> NoError]
             ELSE [table |-> t, err |-> [type |-> "TypeError"]]

\* .astype("string"), cell by cell
CellToString(x) == IF IsNa(x) THEN NA ELSE Str(PyStr(x))

\* date_s + " " + hour_s, cell by cell (a missing operand gives missing)
CombineCells(d, h) ==
    IF IsNa(d) \/ IsNa(h) THEN NA ELSE Str(d.v \o <<" ">> \o h.v)

\* HH:MM:SS with two digits each and every field in range
IsClockText(s) ==
    /\ Len(s) = 8
    /\ s[3] = ":" /\ s[6] = ":"
    /\ \A i \in {1, 2, 4, 5, 7, 8} : IsDigit(s[i])
    /\ ToInt(SubSeq(s, 1, 2)) <= 23
    /\ ToInt(SubSeq(s, 4, 5)) <= 59
    /\ ToInt(SubSeq(s, 7, 8)) <= 59

\* pd.to_datetime(combined, errors="coerce", format="%Y-%m-%d %H:%M:%S"),
\* cell by cell, on the texts the two normalized columns produce
ParseMomentCell(x) ==
    IF IsNa(x) THEN NA
    ELSE IF /\ Len(x.v) = 19
            /\ IsIsoDate(SubSeq(x.v, 1, 10))
            /\ x.v[11] = " "
            /\ IsClockText(SubSeq(x.v, 12, 19))
         THEN Ts(IsoDateOf(SubSeq(x.v, 1, 10)) * SecondsPerDay
                 + ToInt(SubSeq(x.v, 12, 13)) * 3600
                 + ToInt(SubSeq(x.v, 15, 16)) * 60
                 + ToInt(SubSeq(x.v, 18, 19)))
         ELSE NA

\* the rate taken over the rows whose combined text is not missing
CreateMomentColumnRateOfNonMissing(t, dateCol, hourCol, outCol) ==
    IF ~HasColumn(t, dateCol)
    THEN [table |-> t, ret |-> NoRet,
          err |-> [type |-> "KeyError", missing |-> <<dateCol>>]]
    ELSE IF ~HasColumn(t, hourCol)
    THEN [table |-> t, ret |-> NoRet,
          err |-> [type |-> "KeyError", missing |-> <<hourCol>>]]
    ELSE LET dateS == MapCells(t.cols[ColPos(t, dateCol)].vals, CellToString)
             hourS == MapCells(t.cols[ColPos(t, hourCol)].vals, CellToString)
             combined == [i \in 1..NRows(t) |-> CombineCells(dateS[i], hourS[i])]
             dt == [i \in 1..NRows(t) |-> ParseMomentCell(combined[i])]
         IN  [table |-> SetColumn(t, outCol, "datetime64[ns]", dt),
              err |-> NoError,
              ret |-> IF CountNotNa(combined) # 0
                      THEN [valid |-> CountNotNa(dt), of |-> CountNotNa(combined)]
                      ELSE [valid |-> 0, of |-> 1]]

\* create_moment_column: [table, err, ret]; the returned rate is the
\* fraction valid / of, the 0.0 of a table without rows being 0 / 1
CreateMomentColumn(t, dateCol, hourCol, outCol) ==
    IF ~HasColumn(t, dateCol)
    THEN [table |-> t, ret |-> NoRet,
          err |-> [type |-> "KeyError", missing |-> <<dateCol>>]]
    ELSE IF ~HasColumn(t, hourCol)
    THEN [table |-> t, ret |-> NoRet,
          err |-> [type |-> "KeyError", missing |-> <<hourCol>>]]
    ELSE LET dateS == MapCells(t.cols[ColPos(t, dateCol)].vals, CellToString)
             hourS == MapCells(t.cols[ColPos(t, hourCol)].vals, CellToString)
             dt == [i \in 1..NRows(t) |->
                       ParseMomentCell(CombineCells(dateS[i], hourS[i]))]
         IN  [table |-> SetColumn(t, outCol, "datetime64[ns]", dt),
              err |-> NoError,
              ret |-> IF Len(dt) # 0
                      THEN [valid |-> CountNotNa(dt), of |-> Len(dt)]
                      ELSE [valid |-> 0, of |-> 1]]

----------------------------------------------------------------------------
(* The refiner's inputs.                                                   *)

Names == {"moment", "consumption_kwh", "x"}

NameOrder == <<"moment", "consumption_kwh", "x", "y">>

RefinerCells == {NA, Str(<<>>), Str(<<" ">>), Str(<<"a">>)}

TallCells == {NA, Str(<<"a">>)}

RangeIndex(n) == [i \in 1..n |-> i - 1]

\* the frames of r rows with the named columns, all of dtype object
ObjectFrames(r, names, cells) ==
    {[index |-> RangeIndex(r),
      cols  |-> [j \in 1..Len(names) |->
                   [name |-> names[j], dtype |-> "object", vals |-> d[j]]]] :
        d \in [1..Len(names) -> [1..r -> cells]]}

Shapes ==
    {rc \in (0..MaxRows) \X (0..MaxCols) : rc[1] * rc[2] <= MaxCells}

\* the frames the refiner is checked on: every shape within the bounds, and
\* tall one-column frames of up to maxTall rows
RefinerTables(maxTall) ==
    UNION {ObjectFrames(rc[1], SubSeq(NameOrder, 1, rc[2]), RefinerCells) :
              rc \in Shapes}
    \cup UNION {ObjectFrames(r, <<"x">>, TallCells) : r \in 0..maxTall}

----------------------------------------------------------------------------
(* The refiner as a state machine: any method may be called at any time.   *)

Init ==
    /\ table \in RefinerTables(MaxTallRows)
    /\ columns = ColumnNames(table)
    /\ before = table
    /\ op = "init"
    /\ args = NoArgs
    /\ err = NoError
    /\ ret = NoRet
    /\ given = table
    /\ files = {}
    /\ session = NoSession

clean_table ==
    /\ table' = CleanTable(table)
    /\ columns' = ColumnNames(table')
    /\ before' = table
    /\ op' = "clean_table"
    /\ args' = NoArgs
    /\ err' = NoError
    /\ ret' = NoRet
    /\ UNCHANGED <<given, files, session>>

drop_trailing_empty_rows ==
    /\ table' = DropTrailingEmptyRows(table)
    /\ columns' = IF IsEmptyFrame(table) \/ EmptyRowMask(table) = {}
                  THEN columns
                  ELSE ColumnNames(table')
    /\ before' = table
    /\ op' = "drop_trailing_empty_rows"
    /\ args' = NoArgs
    /\ err' = NoError
    /\ ret' = NoRet
    /\ UNCHANGED <<given, files, session>>

drop_empty_columns ==
    /\ table' = DropEmptyColumns(table)
    /\ columns' = IF IsEmptyFrame(table) THEN columns ELSE ColumnNames(table')
    /\ before' = table
    /\ op' = "drop_empty_columns"
    /\ args' = NoArgs
    /\ err' = NoError
    /\ ret' = NoRet
    /\ UNCHANGED <<given, files, session>>

Next ==
    \/ clean_table
    \/ drop_trailing_empty_rows
    \/ drop_empty_columns

Spec == Init /\ [][Next]_vars

----------------------------------------------------------------------------
(* keep_only_moment_and_consumption on frames whose column names vary.     *)

Injective(f) == \A a, b \in DOMAIN f : a # b => f[a] # f[b]

NameSeqs(n) == {s \in [1..n -> Names] : Injective(s)}

KeepTables(maxRows) ==
    UNION {UNION {ObjectFrames(r, names, TallCells) :
                     names \in NameSeqs(c)} :
              <<r, c>> \in (0..maxRows) \X (0..Cardinality(Names))}

InitKeep ==
    /\ table \in KeepTables(MaxKeepRows)
    /\ columns = ColumnNames(table)
    /\ before = table
    /\ op = "init"
    /\ args = NoArgs
    /\ err = NoError
    /\ ret = NoRet
    /\ given = table
    /\ files = {}
    /\ session = NoSession

keep_only_moment_and_consumption ==
    \E m \in Names, c \in Names :
        LET missing == MissingColumns(table, m, c)
        IN  /\ before' = table
            /\ op' = "keep_only_moment_and_consumption"
            /\ args' = [moment_col |-> m, consumption_col |-> c]
            /\ ret' = NoRet
            /\ IF missing # <<>>
               THEN /\ err' = [type |-> "KeyError", missing |-> missing]
                    /\ UNCHANGED <<table, columns>>
               ELSE /\ err' = NoError
                    /\ table' = KeepOnly(table, m, c)
                    /\ columns' = ColumnNames(table')
            /\ UNCHANGED <<given, files, session>>

NextKeep == keep_only_moment_and_consumption

SpecKeep == InitKeep /\ [][NextKeep]_vars


----------------------------------------------------------------------------
(* shift_moment_minus_15_if_first15_last00 on frames with and without a    *)
(* moment column, of datetime64[ns] and of object dtype.                   *)

\* 00:00:00, 00:15:00, 00:15:30, 00:45:00, 01:15:00 and 00:00:00 of the
\* next day
ShiftStamps == {0, 900, 930, 2700, 4500, 86400}

MomentCells == {NA} \cup {Ts(t) : t \in ShiftStamps}

MomentColumns(r) ==
    {[name |-> n, dtype |-> dt, vals |-> v] :
        n \in {"moment", "x"},
        dt \in {"datetime64[ns]", "object"},
        v \in [1..r -> MomentCells]}

ConsumptionColumn(r) ==
    [name |-> "consumption_kwh", dtype |-> "object",
     vals |-> [i \in 1..r |-> Str(<<"a">>)]]

ShiftTables(maxRows) ==
    UNION {{[index |-> RangeIndex(r), cols |-> <<mc, ConsumptionColumn(r)>>] :
               mc \in MomentColumns(r)} : r \in 0..maxRows}
    \cup {[index |-> RangeIndex(r), cols |-> <<>>] : r \in 0..maxRows}

InitShift ==
    /\ table \in ShiftTables(MaxShiftRows)
    /\ columns = ColumnNames(table)
    /\ before = table
    /\ op = "init"
    /\ args = NoArgs
    /\ err = NoError
    /\ ret = NoRet
    /\ given = table
    /\ files = {}
    /\ session = NoSession

shift_moment_minus_15_if_first15_last00 ==
    /\ table' = ShiftMoment(table, "moment")
    /\ columns' = IF \/ IsEmptyFrame(table)
                     \/ ~HasColumn(table, "moment")
                     \/ ~IsDatetime64NsDtype(table.cols[ColPos(table, "moment")].dtype)
                     \/ IsNa(table.cols[ColPos(table, "moment")].vals[1])
                     \/ IsNa(table.cols[ColPos(table, "moment")].vals[NRows(table)])
                  THEN columns
                  ELSE ColumnNames(table')
    /\ before' = table
    /\ op' = "shift_moment_minus_15_if_first15_last00"
    /\ args' = [moment_col |-> "moment"]
    /\ err' = NoError
    /\ ret' = NoRet
    /\ given' = table'
    /\ UNCHANGED <<files, session>>

NextShift == shift_moment_minus_15_if_first15_last00

SpecShift == InitShift /\ [][NextShift]_vars

----------------------------------------------------------------------------
(* Preference_Date_And_Hour on the path of the driver: detect_date_dtype,  *)
(* normalize_hour_column, create_moment_column, a raised exception ending  *)
(* the path.  args holds date_col and hour_col of the constructor.         *)

\* the sequences over alphabet of length at most n
Strs(alphabet, n) == UNION {[1..k -> alphabet] : k \in 0..n}

RECURSIVE JoinColon(_)
JoinColon(parts) ==
    IF Len(parts) = 1 THEN parts[1]
    ELSE parts[1] \o <<":">> \o JoinColon(Tail(parts))

TextChars == {"0", "2", "3", "5", "9", ":", " ", "x"}

RunDigits == {"0", "3", "9"}

PartTexts == {<<"0">>, <<"9">>, <<"2", "3">>, <<"2", "4">>, <<"5", "9">>,
              <<"6", "0">>}

ExampleTexts ==
    {<<"0", "9", "3", "0", "0", "0">>, <<"0", "9", "3", "0">>,
     <<"9", "3", "0">>, <<"9">>, <<"9", ":", "3", "0">>,
     <<"2", "5", ":", "0", "0">>, <<>>,
     <<"2", "3", "5", "9", "5", "9">>, <<"2", "4", "0", "0", "0", "0">>,
     <<"1", "2", "6", "0">>, <<"1", "2", "4", "5", "6", "0">>,
     <<"7", "4", "5">>, <<"9", ".", "3", "0", " ", "P", "M">>}

\* the texts of the hour cells checked one by one
HourTexts(maxLen, maxRun, maxParts) ==
    Strs(TextChars, maxLen)
    \cup Strs(RunDigits, maxRun)
    \cup {JoinColon(ps) : ps \in UNION {[1..k -> PartTexts] : k \in 2..maxParts}}
    \cup ExampleTexts

\* 2024-01-03 09:30:05 and 2024-01-01 23:59:59
StampA == 2 * SecondsPerDay + 9 * 3600 + 30 * 60 + 5
StampB == SecondsPerDay - 1

Column_(name, dtype, vals) == [name |-> name, dtype |-> dtype, vals |-> vals]

\* the hour columns of r rows
HourColumns(r) ==
    {Column_("hour", "object", v) :
        v \in [1..r -> {NA, Str(<<"9", ":", "3", "0">>), Str(<<"x">>), Ts(StampA)}]}
    \cup {Column_("hour", "string", v) :
        v \in [1..r -> {NA, Str(<<"9", "3", "0">>)}]}
    \cup {Column_("hour", "datetime64[ns]", v) :
        v \in [1..r -> {NA, Ts(StampA)}]}
    \cup {Column_("hour", "int64", [i \in 1..r |-> Int_(930)])}

\* the date columns of r rows
DateColumns(r) ==
    {Column_("date", "object", v) :
        v \in [1..r -> {NA, Str(DateStr(1)), Str(<<"x">>)}]}
    \cup {Column_("date", "datetime64[ns]", v) :
        v \in [1..r -> {NA, Ts(StampB)}]}
    \cup {Column_("date", "int64", [i \in 1..r |-> Int_(1)])}
    \cup {Column_("date", "float64", [i \in 1..r |-> NA])}

SynthTables(maxRows) ==
    \* one hour cell of any text, or an integer, beside a valid date
    {[index |-> RangeIndex(1),
      cols |-> <<Column_("date", "object", <<Str(DateStr(0))>>),
                 Column_("hour", "object", <<Str(txt)>>)>>] : txt \in HourTexts(MaxTextLen, MaxRunLen, MaxParts)}
    \cup {[index |-> RangeIndex(1),
           cols |-> <<Column_("date", "object", <<Str(DateStr(0))>>),
                      Column_("hour", "object", <<Int_(n)>>)>>] :
             n \in {7, 930, 2460, -930}}
    \* every pairing of a date column and an hour column
    \cup UNION {{[index |-> RangeIndex(r), cols |-> <<dc, hc>>] :
                    dc \in DateColumns(r), hc \in HourColumns(r)} :
                r \in 0..maxRows}
    \* a nominated column that the table does not have
    \cup UNION {{[index |-> RangeIndex(r), cols |-> <<dc>>] :
                    dc \in DateColumns(r)} : r \in 0..maxRows}

InitSynth ==
    /\ table \in SynthTables(MaxSynthRows)
    /\ columns = ColumnNames(table)
    /\ before = table
    /\ op = "init"
    /\ args = [date_col |-> "date", hour_col |-> "hour"]
    /\ err = NoError
    /\ ret = NoRet
    /\ given = table
    /\ files = {}
    /\ session = NoSession

detect_date_dtype ==
    /\ op = "init"
    /\ LET r == DetectDateDtype(table, args.date_col)
       IN  /\ table' = r.table
           /\ err' = r.err
    /\ before' = table
    /\ op' = "detect_date_dtype"
    /\ ret' = NoRet
    /\ given' = table'
    /\ UNCHANGED <<columns, args, files, session>>

normalize_hour_column ==
    /\ op = "detect_date_dtype" /\ err = NoError
    /\ LET r == NormalizeHourColumn(table, args.hour_col)
       IN  /\ table' = r.table
           /\ err' = r.err
    /\ before' = table
    /\ op' = "normalize_hour_column"
    /\ ret' = NoRet
    /\ given' = table'
    /\ UNCHANGED <<columns, args, files, session>>

create_moment_column ==
    /\ op = "normalize_hour_column" /\ err = NoError
    /\ LET r == CreateMomentColumn(table, args.date_col, args.hour_col, "moment")
       IN  /\ table' = r.table
           /\ err' = r.err
           /\ ret' = r.ret
    /\ before' = table
    /\ op' = "create_moment_column"
    /\ given' = table'
    /\ UNCHANGED <<columns, args, files, session>>

NextSynth ==
    \/ detect_date_dtype
    \/ normalize_hour_column
    \/ create_moment_column

SpecSynth == InitSynth /\ [][NextSynth]_vars

----------------------------------------------------------------------------
(* What the claims say, stated on the frame the call was made on (before)  *)
(* and independently of the operators that model the code.                 *)

\* the positions of the rows of t with at least one non-empty cell
NonEmptyRows(t) ==
    {i \in 1..NRows(t) : \E j \in 1..NCols(t) : ~CellIsEmpty(CellAt(t, i, j))}

\* the positions of the columns of t with at least one non-empty cell
NonEmptyCols(t) ==
    {j \in 1..NCols(t) : \E i \in 1..NRows(t) : ~CellIsEmpty(CellAt(t, i, j))}

\* t has an all-empty row strictly between two rows that are not empty
HasInteriorEmptyRow(t) ==
    \E i \in 1..NRows(t) :
        /\ i \notin NonEmptyRows(t)
        /\ \E a \in NonEmptyRows(t) : a < i
        /\ \E b \in NonEmptyRows(t) : b > i

\* C1: clean_table returns exactly the non-empty rows and the non-empty
\* columns of its input, in their original order, so that the result holds
\* no all-empty column and no all-empty row (an interior whitespace-only row
\* included).
C1_CleanRemovesEveryEmptyRowAndColumn ==
    op = "clean_table" =>
        /\ table = TakeRows(TakeCols(before, NonEmptyCols(before)),
                            NonEmptyRows(before))
        /\ NonEmptyRows(table) = 1..NRows(table)
        /\ NonEmptyCols(table) = 1..NCols(table)

\* C2: clean_table is idempotent: cleaning the result of a clean_table
\* call again gives the same frame (index, columns and cells).
C2_CleanIdempotent ==
    op = "clean_table" => CleanTable(table) = table

C2_Witness ==
    /\ op = "clean_table"
    /\ NCols(table) < NCols(before)
    /\ HasInteriorEmptyRow(table)

\* C3: drop_trailing_empty_rows keeps exactly rows 0..k of its input, k
\* the highest position of a row with a non-empty cell, every column kept;
\* with no such row the result has the same columns and zero rows.
C3_TrimKeepsRowsUpToLastNonEmpty ==
    op = "drop_trailing_empty_rows" =>
        /\ ColumnNames(table) = ColumnNames(before)
        /\ IF NonEmptyRows(before) = {}
           THEN NRows(table) = 0
           ELSE table = TakeRows(before, 1..SetMax(NonEmptyRows(before)))

\* C4: drop_empty_columns removes exactly the columns that are empty in
\* every row, keeps the others in order and keeps every row; a frame with
\* columns and zero rows included.
C4_DropsExactlyTheEmptyColumns ==
    op = "drop_empty_columns" =>
        table = TakeCols(before, NonEmptyCols(before))

\* the names among s that are no column of t, in order
Absent(t, s) ==
    SelectSeq(s, LAMBDA n : \A j \in 1..NCols(t) : t.cols[j].name # n)

\* C5: keep_only_moment_and_consumption either returns the two requested
\* columns in the requested order with every row unchanged, or, when a
\* requested column is absent, raises the missing-column error listing
\* exactly the absent requested names and leaves the table unchanged.
C5_ReduceToOrMissingColumnError ==
    op = "keep_only_moment_and_consumption" =>
        LET want == <<args.moment_col, args.consumption_col>>
        IN  IF Absent(before, want) = <<>>
            THEN /\ err = NoError
                 /\ ColumnNames(table) = want
                 /\ table.index = before.index
                 /\ \A p \in 1..2 : \E j \in 1..NCols(before) :
                        /\ before.cols[j].name = want[p]
                        /\ table.cols[p] = before.cols[j]
            ELSE /\ err = [type |-> "KeyError",
                           missing |-> Absent(before, want)]
                 /\ table = before

C5_Witness ==
    /\ op = "keep_only_moment_and_consumption"
    /\ args = [moment_col |-> "moment", consumption_col |-> "consumption_kwh"]
    /\ ColumnNames(before) = <<"x", "moment">>
    /\ NRows(before) > 0
    /\ err = [type |-> "KeyError", missing |-> <<"consumption_kwh">>]


\* column c of t, when t has it
Column(t, c) == t.cols[CHOOSE j \in 1..NCols(t) : t.cols[j].name = c]

\* the rule's condition, read on the frame the call was made on
FirstIs15LastIs00(t, c) ==
    /\ NRows(t) > 0
    /\ Column(t, c).vals[1].k = "ts"
    /\ Column(t, c).vals[NRows(t)].k = "ts"
    /\ (Column(t, c).vals[1].t \div 60) % 60 = 15
    /\ (Column(t, c).vals[NRows(t)].t \div 60) % 60 = 0

\* C6: on a frame whose moment column is of the point-in-time dtype, every
\* value of that column is 15 minutes earlier after the call if the frame
\* has rows, its first row's minute is 15 and its last row's minute is 0;
\* in every other case (other minutes, no rows, no such column, first or
\* last value invalid) the frame is returned unchanged.  No error is
\* raised, and neither another column nor the rows change.
C6_ShiftIffFirst15Last00 ==
    op = "shift_moment_minus_15_if_first15_last00" =>
        /\ err = NoError
        /\ table.index = before.index
        /\ ColumnNames(table) = ColumnNames(before)
        /\ \A j \in 1..NCols(before) :
               before.cols[j].name # args.moment_col
                   => table.cols[j] = before.cols[j]
        /\ \A j \in 1..NCols(before) :
               before.cols[j].name = args.moment_col =>
                   /\ table.cols[j].dtype = before.cols[j].dtype
                   /\ IF /\ before.cols[j].dtype = "datetime64[ns]"
                         /\ FirstIs15LastIs00(before, args.moment_col)
                      THEN \A i \in 1..NRows(before) :
                              LET old == before.cols[j].vals[i]
                                  new == table.cols[j].vals[i]
                              IN  IF old.k = "ts"
                                  THEN new = Ts(old.t - 15 * 60)
                                  ELSE new = old
                      ELSE table.cols[j] = before.cols[j]

C6_Witness ==
    /\ op = "shift_moment_minus_15_if_first15_last00"
    /\ NRows(before) = 3
    /\ \E j \in 1..NCols(before) : before.cols[j].name = "moment"
    /\ Column(before, "moment").vals = <<Ts(4500), NA, Ts(86400)>>
    /\ Column(table, "moment").vals = <<Ts(3600), NA, Ts(85500)>>


----------------------------------------------------------------------------
(* The hour rule of the specification, written from its text: the digit    *)
(* groups of a cell's text, the fields they stand for, the canonical text. *)

\* the maximal runs of digits of s, in order (cur: the run being read)
RECURSIVE DigitGroups(_, _)
DigitGroups(s, cur) ==
    IF s = <<>> THEN (IF cur = <<>> THEN <<>> ELSE <<cur>>)
    ELSE IF IsDigit(Head(s)) THEN DigitGroups(Tail(s), Append(cur, Head(s)))
    ELSE (IF cur = <<>> THEN <<>> ELSE <<cur>>) \o DigitGroups(Tail(s), <<>>)

\* hour, minute, second of a pure digit run, by its length (<<>>: none)
RunFields(run) ==
    CASE Len(run) = 6 -> <<ToInt(SubSeq(run, 1, 2)), ToInt(SubSeq(run, 3, 4)),
                           ToInt(SubSeq(run, 5, 6))>>
      [] Len(run) = 4 -> <<ToInt(SubSeq(run, 1, 2)), ToInt(SubSeq(run, 3, 4)), 0>>
      [] Len(run) = 3 -> <<DigitVal(run[1]), ToInt(SubSeq(run, 2, 3)), 0>>
      [] Len(run) \in {1, 2} -> <<ToInt(run), 0, 0>>
      [] OTHER -> <<>>

\* hour, minute, second a text is parsed to (<<>>: none)
ParsedFields(s) ==
    LET g == DigitGroups(s, <<>>)
    IN  CASE Len(g) = 0 -> <<>>
          [] Len(g) = 1 -> RunFields(g[1])
          [] Len(g) = 2 -> <<ToInt(g[1]), ToInt(g[2]), 0>>
          [] OTHER -> <<ToInt(g[1]), ToInt(g[2]), ToInt(g[3])>>

InRange(f) ==
    /\ 0 <= f[1] /\ f[1] <= 23
    /\ 0 <= f[2] /\ f[2] <= 59
    /\ 0 <= f[3] /\ f[3] <= 59

TwoDigits(n) == <<DigitSeq[(n \div 10) + 1], DigitSeq[(n % 10) + 1]>>

\* the canonical text HH:MM:SS of in-range fields
ClockText(f) ==
    TwoDigits(f[1]) \o <<":">> \o TwoDigits(f[2]) \o <<":">> \o TwoDigits(f[3])

\* s is HH:MM:SS, two digits each, with every field in its range
IsCanonicalClock(s) ==
    /\ Len(s) = 8
    /\ s[3] = ":" /\ s[6] = ":"
    /\ \A i \in {1, 2, 4, 5, 7, 8} : IsDigit(s[i])
    /\ 10 * DigitVal(s[1]) + DigitVal(s[2]) \in 0..23
    /\ 10 * DigitVal(s[4]) + DigitVal(s[5]) \in 0..59
    /\ 10 * DigitVal(s[7]) + DigitVal(s[8]) \in 0..59

\* the hour cell of row i, before and after the call
HourIn(i) == Column(before, args.hour_col).vals[i]
HourOut(i) == Column(table, args.hour_col).vals[i]

HourNormalized ==
    /\ op = "normalize_hour_column"
    /\ err = NoError

\* C7: a text cell that is a pure digit run is read by its length (6:
\* HHMMSS, 4: HHMM, 3: H MM, 1 or 2: the hour) and gives the zero-padded
\* HH:MM:SS text; "093000", "0930", "930" and "9:30" give "09:30:00", "9"
\* gives "09:00:00", "25:00" and "" give the invalid marker.
C7_DigitRunsReadByLength ==
    HourNormalized =>
        \A i \in 1..NRows(before) :
            LET in == HourIn(i)
            IN  in.k = "str" =>
                  /\ (IsDigits(in.v) /\ RunFields(in.v) # <<>>
                          /\ InRange(RunFields(in.v)))
                        => HourOut(i) = Str(ClockText(RunFields(in.v)))
                  /\ in.v \in {<<"0", "9", "3", "0", "0", "0">>,
                               <<"0", "9", "3", "0">>, <<"9", "3", "0">>,
                               <<"9", ":", "3", "0">>}
                        => HourOut(i) =
                              Str(<<"0", "9", ":", "3", "0", ":", "0", "0">>)
                  /\ in.v = <<"9">>
                        => HourOut(i) =
                              Str(<<"0", "9", ":", "0", "0", ":", "0", "0">>)
                  /\ in.v \in {<<"2", "5", ":", "0", "0">>, <<>>}
                        => HourOut(i) = NA

C7_Witness ==
    /\ HourNormalized
    /\ NRows(before) = 1
    /\ HourIn(1) = Str(<<"9", "3", "0">>)
    /\ HourOut(1) = Str(<<"0", "9", ":", "3", "0", ":", "0", "0">>)

\* C8: no clamping: every output cell is the invalid marker or a text
\* HH:MM:SS whose fields are the parsed hour, minute and second, all in
\* range; a missing cell, a blank cell, a text without digits and a text
\* with a parsed field out of range give the invalid marker.
C8_InvalidNotClamped ==
    HourNormalized =>
        \A i \in 1..NRows(before) :
            LET in == HourIn(i)
                out == HourOut(i)
            IN  /\ out = NA \/ (out.k = "str" /\ IsCanonicalClock(out.v))
                /\ in = NA => out = NA
                /\ in.k = "str" =>
                     LET f == ParsedFields(in.v)
                     IN  /\ (f = <<>> \/ ~InRange(f)) => out = NA
                         /\ out # NA => out = Str(ClockText(f))

C8_Witness ==
    /\ HourNormalized
    /\ NRows(before) = 1
    /\ HourIn(1) = Str(<<"9", ":", "6", "0">>)
    /\ HourOut(1) = NA

\* C9: a cell that is already a date/time value is normalized to its time
\* of day, HH:MM:SS, whatever the type of the column it sits in.
C9_TimestampCellGivesTimeOfDay ==
    HourNormalized =>
        \A i \in 1..NRows(before) :
            HourIn(i).k = "ts" =>
                LET sod == HourIn(i).t % (24 * 3600)
                IN  HourOut(i) =
                        Str(ClockText(<<sod \div 3600, (sod \div 60) % 60,
                                        sod % 60>>))

\* the three steps, called with both nominated columns in the table
StepOnPresentColumns ==
    /\ op \in {"detect_date_dtype", "normalize_hour_column",
               "create_moment_column"}
    /\ \E j \in 1..NCols(before) : before.cols[j].name = args.date_col
    /\ \E j \in 1..NCols(before) : before.cols[j].name = args.hour_col

\* the column a step writes
TargetColumn ==
    CASE op = "detect_date_dtype" -> args.date_col
      [] op = "normalize_hour_column" -> args.hour_col
      [] op = "create_moment_column" -> "moment"

\* the step wrote one value (possibly the invalid marker) per row
StepProducedEveryRow ==
    /\ table.index = before.index
    /\ \E j \in 1..NCols(table) : table.cols[j].name = TargetColumn
    /\ LET vals == Column(table, TargetColumn).vals
       IN  /\ Len(vals) = NRows(before)
           /\ \A i \in 1..Len(vals) : vals[i].k \in {"na", "str", "ts"}

TextOrDatetime(dtype) == dtype \in {"object", "string", "datetime64[ns]"}

\* a cell that reads as a date: a timestamp or a date text
ReadsAsDate(x) ==
    \/ x.k = "ts"
    \/ (x.k = "str" /\ \E d \in 0..8 : x.v = DateStr(d))

----------------------------------------------------------------------------
(* Total and partial parse failure of the two normalization steps.         *)

\* an hour cell that does not normalize: missing, or a text whose digit
\* groups give no fields or a field out of range
HourCellUnparseable(x) ==
    \/ x = NA
    \/ (x.k = "str" /\ (ParsedFields(x.v) = <<>> \/ ~InRange(ParsedFields(x.v))))

\* C11: total parse failure of the hour column is fatal: when the hour
\* column has at least one non-missing value and every one of its values
\* fails to parse, normalize_hour_column aborts with an error instead of
\* returning a column of invalid markers.
C11_TotalHourFailureIsFatal ==
    (/\ op = "normalize_hour_column"
     /\ \E j \in 1..NCols(before) : before.cols[j].name = args.hour_col
     /\ LET s == Column(before, args.hour_col)
        IN  /\ s.dtype \in {"object", "string"}
            /\ \E i \in 1..Len(s.vals) : s.vals[i] # NA
            /\ \A i \in 1..Len(s.vals) : HourCellUnparseable(s.vals[i]))
        => err # NoError

\* detect_date_dtype, called on a table that has the nominated column
DateStepOnPresentColumn ==
    /\ op = "detect_date_dtype"
    /\ \E j \in 1..NCols(before) : before.cols[j].name = args.date_col

\* the text YYYY-MM-DD of a cell that reads as a date
DateText(x) ==
    IF x.k = "ts"
    THEN <<"2", "0", "2", "4", "-", "0", "1", "-">>
             \o TwoDigits((x.t \div (24 * 3600)) + 1)
    ELSE x.v

\* the column has a non-missing value and none of its values reads as a date
NothingParsesAsDate(s) ==
    /\ \E i \in 1..Len(s.vals) : s.vals[i] # NA
    /\ \A i \in 1..Len(s.vals) : ~ReadsAsDate(s.vals[i])

\* the step wrote the date text of every cell that reads as a date and the
\* invalid marker elsewhere, and kept the rows
DateColumnNormalized ==
    /\ table.index = before.index
    /\ \E j \in 1..NCols(table) : table.cols[j].name = args.date_col
    /\ LET in == Column(before, args.date_col).vals
           out == Column(table, args.date_col).vals
       IN  /\ Len(out) = Len(in)
           /\ \A i \in 1..Len(in) :
                  out[i] = IF ReadsAsDate(in[i]) THEN Str(DateText(in[i]))
                           ELSE NA

\* C12, as claimed: detect_date_dtype on a column of the table fails if and
\* only if the column has a non-missing value and none of its values parses
\* as a date; otherwise it succeeds, every parseable cell becomes its
\* YYYY-MM-DD text, every other cell the invalid marker, the rows unchanged.
C12_DateFailsIffNothingParses ==
    DateStepOnPresentColumn =>
        /\ (err # NoError) <=> NothingParsesAsDate(Column(before, args.date_col))
        /\ err = NoError => DateColumnNormalized

\* C12, amended: detect_date_dtype on a column of the table raises
\* TypeError when the column is neither datetime nor string/object typed
\* (a numeric column, an all-NaN float column and a numeric column without
\* rows included), raises ValueError when a string/object column has a
\* non-missing value and none of its values parses as a date, and leaves
\* the table as it was in both cases; in every other case it succeeds,
\* every parseable cell becomes its YYYY-MM-DD text, every other cell the
\* invalid marker, the rows unchanged.
C12_DateFailsOnDtypeOrNothingParses ==
    DateStepOnPresentColumn =>
        LET s == Column(before, args.date_col)
        IN  /\ err = IF ~TextOrDatetime(s.dtype) THEN [type |-> "TypeError"]
                     ELSE IF NothingParsesAsDate(s) THEN [type |-> "ValueError"]
                     ELSE NoError
            /\ err # NoError => table = before
            /\ err = NoError => DateColumnNormalized

C12_Witness ==
    /\ DateStepOnPresentColumn
    /\ err = NoError
    /\ Column(before, args.date_col).vals =
           <<Str(<<"x">>), Str(<<"2", "0", "2", "4", "-", "0", "1", "-", "0", "2">>)>>
    /\ Column(table, args.date_col).vals =
           <<NA, Str(<<"2", "0", "2", "4", "-", "0", "1", "-", "0", "2">>)>>

----------------------------------------------------------------------------
(* create_moment_column on the two normalized columns.                     *)

\* create_moment_column, called on a table that has both nominated columns
MomentStepOnPresentColumns ==
    /\ op = "create_moment_column"
    /\ \E j \in 1..NCols(before) : before.cols[j].name = args.date_col
    /\ \E j \in 1..NCols(before) : before.cols[j].name = args.hour_col

\* a normalized date cell that is valid: the text of a date
ValidDatePart(x) == x.k = "str" /\ ReadsAsDate(x)

\* a normalized hour cell that is valid: a canonical clock text
ValidHourPart(x) == x.k = "str" /\ IsCanonicalClock(x.v)

\* the point in time of a date text and a clock text
MomentOf(d, h) ==
    Ts((10 * DigitVal(d.v[9]) + DigitVal(d.v[10]) - 1) * 24 * 3600
       + (10 * DigitVal(h.v[1]) + DigitVal(h.v[2])) * 3600
       + (10 * DigitVal(h.v[4]) + DigitVal(h.v[5])) * 60
       + (10 * DigitVal(h.v[7]) + DigitVal(h.v[8])))

\* C13: create_moment_column on a normalized date and a normalized hour
\* column raises nothing and writes one moment per row, the rows unchanged:
\* the timestamp of 'YYYY-MM-DD HH:MM:SS' when both parts are valid, the
\* invalid marker when either is invalid.  The returned rate is (rows with
\* a valid moment) / (rows), 0 for a table without rows, and lies in [0, 1].
C13_MomentPerRowAndRate ==
    MomentStepOnPresentColumns =>
        /\ err = NoError
        /\ table.index = before.index
        /\ \E j \in 1..NCols(table) : table.cols[j].name = "moment"
        /\ LET dates == Column(before, args.date_col).vals
               hours == Column(before, args.hour_col).vals
               moments == Column(table, "moment").vals
               n == NRows(before)
               valid == {i \in 1..n : moments[i] # NA}
           IN  /\ Len(moments) = n
               /\ \A i \in 1..n :
                      moments[i] =
                          IF ValidDatePart(dates[i]) /\ ValidHourPart(hours[i])
                          THEN MomentOf(dates[i], hours[i])
                          ELSE NA
               /\ ret.of > 0
               /\ 0 <= ret.valid /\ ret.valid <= ret.of
               /\ ret.valid * n = Cardinality(valid) * ret.of
               /\ n = 0 => ret.valid = 0

C13_Witness ==
    /\ MomentStepOnPresentColumns
    /\ NRows(before) = 1
    /\ Column(before, args.date_col).vals =
           <<Str(<<"2", "0", "2", "4", "-", "0", "1", "-", "0", "1">>)>>
    /\ Column(before, args.hour_col).vals =
           <<Str(<<"0", "0", ":", "0", "0", ":", "0", "0">>)>>
    /\ Column(table, "moment").vals = <<Ts(0)>>
    /\ ret = [valid |-> 1, of |-> 1]

----------------------------------------------------------------------------
(* TimeColumnDetector.  A column name is a string; Chars gives the         *)
(* characters of the names the checked tables use.  BaseColumnDetector   *)
(* (self.columns, self._norm) is not among the sources: columns is taken   *)
(* as the names of the table in order and _norm as lower-casing and        *)
(* trimming, as the specification describes the normalized form.           *)

UpperSeq == <<"A", "B", "C", "D", "E", "F", "G", "H", "I", "J", "K", "L", "M", "N", "O", "P", "Q", "R", "S", "T", "U", "V", "W", "X", "Y", "Z">>

LowerSeq == <<"a", "b", "c", "d", "e", "f", "g", "h", "i", "j", "k", "l", "m", "n", "o", "p", "q", "r", "s", "t", "u", "v", "w", "x", "y", "z">>

\* str.lower() of one character
LowerChar(c) ==
    IF \E i \in 1..Len(UpperSeq) : UpperSeq[i] = c
    THEN LowerSeq[CHOOSE i \in 1..Len(UpperSeq) : UpperSeq[i] = c]
    ELSE c

\* str.lower()
Lower(s) == [i \in 1..Len(s) |-> LowerChar(s[i])]

\* the characters of a column name
Chars(name) ==
    CASE name = "Datum" -> <<"D", "a", "t", "u", "m">>
      [] name = " Zeit " -> <<" ", "Z", "e", "i", "t", " ">>
      [] name = "Total" -> <<"T", "o", "t", "a", "l">>
      [] name = "kWh" -> <<"k", "W", "h">>
      [] name = "x" -> <<"x">>
      [] name = "TIME" -> <<"T", "I", "M", "E">>
      [] name = "moment" -> <<"m", "o", "m", "e", "n", "t">>
      [] name = "consumption_kwh" -> <<"c", "o", "n", "s", "u", "m", "p", "t", "i", "o", "n", "_", "k", "w", "h">>
      [] name = "date" -> <<"d", "a", "t", "e">>
      [] name = "hour" -> <<"h", "o", "u", "r">>

TIME_KEYWORDS ==
    <<<<"t", "i", "m", "e">>,
      <<"d", "a", "t", "e">>,
      <<"d", "a", "t", "u", "m">>,
      <<"t", "i", "m", "e", "s", "t", "a", "m", "p">>,
      <<"z", "e", "i", "t">>,
      <<"u", "h", "r", "z", "e", "i", "t">>,
      <<"d", "a", "t", "e", "t", "i", "m", "e">>,
      <<"f", "r", "o", "m">>,
      <<"t", "o">>,
      <<"v", "o", "n">>,
      <<"b", "i", "s">>,
      <<"a", "b">>>>

\* BaseColumnDetector._norm
Norm(name) == Strip(Lower(Chars(name)))

IsPrefix(p, s) == Len(p) <= Len(s) /\ SubSeq(s, 1, Len(p)) = p

\* keyword in n
RECURSIVE Contains(_, _)
Contains(n, keyword) ==
    IF Len(n) < Len(keyword) THEN FALSE
    ELSE IsPrefix(keyword, n) \/ Contains(Tail(n), keyword)

\* the normalized name is a keyword, instead of containing one
HasTimeKeywordExact(name) ==
    \E k \in 1..Len(TIME_KEYWORDS) : Norm(name) = TIME_KEYWORDS[k]

\* _has_time_keyword
HasTimeKeyword(name) ==
    \E k \in 1..Len(TIME_KEYWORDS) : Contains(Norm(name), TIME_KEYWORDS[k])

\* detect_time_columns
DetectTimeColumns(t) == SelectSeq(ColumnNames(t), HasTimeKeyword)

DetectNames == {"Datum", " Zeit ", "Total", "kWh", "x", "TIME"}

\* the tables the detector is checked on: up to maxCols columns with
\* distinct names, zero rows or one row
DetectTables(maxCols) ==
    UNION {UNION {ObjectFrames(r, names, TallCells) :
                     names \in {s \in [1..c -> DetectNames] : Injective(s)}} :
              <<r, c>> \in (0..1) \X (0..maxCols)}

InitDetect ==
    /\ table \in DetectTables(MaxDetectCols)
    /\ columns = ColumnNames(table)
    /\ before = table
    /\ op = "init"
    /\ args = NoArgs
    /\ err = NoError
    /\ ret = NoRet
    /\ given = table
    /\ files = {}
    /\ session = NoSession

detect_time_columns ==
    /\ ret' = [candidates |-> DetectTimeColumns(table)]
    /\ before' = table
    /\ op' = "detect_time_columns"
    /\ args' = NoArgs
    /\ err' = NoError
    /\ UNCHANGED <<table, columns, given, files, session>>

NextDetect == detect_time_columns

SpecDetect == InitDetect /\ [][NextDetect]_vars

\* the normalized form of the name holds the keyword at some position
KeywordAt(name, keyword) ==
    \E i \in 1..(Len(Norm(name)) - Len(keyword) + 1) :
        SubSeq(Norm(name), i, i + Len(keyword) - 1) = keyword

NameHasKeyword(name) ==
    \E k \in 1..Len(TIME_KEYWORDS) : KeywordAt(name, TIME_KEYWORDS[k])

\* the tables of zero rows and of one row with the column names of t
SameNamedTables(t) ==
    ObjectFrames(0, ColumnNames(t), TallCells)
        \cup ObjectFrames(1, ColumnNames(t), TallCells)

\* C14: detect_time_columns returns exactly the column names whose
\* normalized form contains a keyword of the fixed set, in the order of the
\* table's columns; the result depends on the column names only: a table
\* with the same column names and other cell values gives the same list.
C14_CandidatesByNameOnly ==
    op = "detect_time_columns" =>
        /\ err = NoError
        /\ table = before
        /\ ret.candidates = SelectSeq(ColumnNames(before), NameHasKeyword)
        /\ \A t2 \in SameNamedTables(before) :
               DetectTimeColumns(t2) = ret.candidates

C14_Witness ==
    /\ op = "detect_time_columns"
    /\ NRows(before) = 1
    /\ ColumnNames(before) = <<"Total", "kWh", " Zeit ">>
    /\ ret.candidates = <<"Total", " Zeit ">>

----------------------------------------------------------------------------
(* The driver's date + hour strategy (src/app.py): one run of the script   *)
(* with the date + hour mapping confirmed executes the try block of lines  *)
(* 449-469 and then the final section of lines 474-498; a run without the  *)
(* confirmation executes the final section only.  table is                 *)
(* st.session_state.df_processed, err the exception the try block caught,  *)
(* ret what the run shows to the user.                                     *)

\* lines 455-465: the reduction and the two trimming steps on the
\* synthesized table, which build new frames
ReduceAndTrim(t) ==
    IF MissingColumns(t, "moment", "consumption_kwh") # <<>>
    THEN [table |-> t, given |-> t,
          err |-> [type |-> "KeyError",
                   missing |-> MissingColumns(t, "moment", "consumption_kwh")]]
    ELSE [table |-> DropEmptyColumns(DropTrailingEmptyRows(
                        KeepOnly(t, "moment", "consumption_kwh"))),
          err |-> NoError,
          given |-> t]

\* what the try block leaves when a synthesis step raised
Raised(r) == [table |-> r.table, err |-> r.err, given |-> r.table]

\* the try block: [table, err, given]; the three synthesis steps write into
\* the session's frame
DateHourBranch(df, dateCol, hourCol) ==
    CHOOSE b \in
        {IF r1.err # NoError THEN Raised(r1)
         ELSE CHOOSE b2 \in
             {IF r2.err # NoError THEN Raised(r2)
              ELSE CHOOSE b3 \in
                  {IF r3.err # NoError THEN Raised(r3)
                   ELSE ReduceAndTrim(r3.table) :
                      r3 \in {CreateMomentColumn(r2.table, dateCol, hourCol,
                                                 "moment")}} : TRUE :
                 r2 \in {NormalizeHourColumn(r1.table, hourCol)}} : TRUE :
            r1 \in {DetectDateDtype(df, dateCol)}} : TRUE

\* final_ready without the comparison of the column set
FinalReadyNonEmpty(df) == NRows(df) > 0

\* final_ready
FinalReady(df) ==
    /\ {df.cols[j].name : j \in 1..NCols(df)} = {"moment", "consumption_kwh"}
    /\ NRows(df) > 0

\* the final section: the interval alignment, then, on a final table, the
\* two trimming steps
FinalSection(df) ==
    LET shifted == ShiftMoment(df, "moment")
    IN  IF FinalReady(shifted)
        THEN DropEmptyColumns(DropTrailingEmptyRows(shifted))
        ELSE shifted

SuccessMessage == [message |-> "Success! Your final table is ready."]

ErrorMessage == [message |-> "I couldn't normalize/merge date+hour"]

PipeDateColumns(r) ==
    {Column_("date", "object", v) :
        v \in [1..r -> {Str(DateStr(0)), Str(<<"x">>)}]}

PipeHourColumns(r) ==
    {Column_("time", "object", v) :
        v \in [1..r -> {Str(<<"0", ":", "1", "5">>), Str(<<"1", ":", "0", "0">>),
                        Str(<<"x">>)}]}
    \cup {Column_("time", "int64", [i \in 1..r |-> Int_(930)])}

PipeConsumptionColumns(r) ==
    {Column_("consumption_kwh", "float64", v) : v \in [1..r -> {NA, Int_(1)}]}

\* the processed tables the driver is checked on: a date, an hour and a
\* consumption column, and tables in which no consumption was detected
PipeTables(maxRows) ==
    UNION {{[index |-> RangeIndex(r), cols |-> <<dc, hc, cc>>] :
               dc \in PipeDateColumns(r), hc \in PipeHourColumns(r),
               cc \in PipeConsumptionColumns(r)} : r \in 0..maxRows}
    \cup UNION {{[index |-> RangeIndex(r), cols |-> <<dc, hc>>] :
                    dc \in PipeDateColumns(r), hc \in PipeHourColumns(r)} :
                r \in 0..2}

InitPipe ==
    /\ table \in PipeTables(MaxPipeRows)
    /\ columns = ColumnNames(table)
    /\ before = table
    /\ op = "init"
    /\ args = [date_col |-> "date", hour_col |-> "time"]
    /\ err = NoError
    /\ ret = NoRet
    /\ given = table
    /\ files = {}
    /\ session = NoSession

date_hour_rerun ==
    \E b \in {DateHourBranch(table, args.date_col, args.hour_col)} :
        /\ table' = FinalSection(b.table)
        /\ err' = b.err
        /\ ret' = IF b.err = NoError THEN SuccessMessage ELSE ErrorMessage
        /\ given' = IF b.err = NoError THEN b.given
                    ELSE ShiftMoment(b.table, "moment")
        /\ columns' = ColumnNames(table')
        /\ before' = table
        /\ op' = "date_hour_rerun"
        /\ UNCHANGED <<args, files, session>>

final_section_rerun ==
    /\ table' = FinalSection(table)
    /\ given' = ShiftMoment(table, "moment")
    /\ columns' = ColumnNames(table')
    /\ before' = table
    /\ op' = "final_section_rerun"
    /\ err' = NoError
    /\ ret' = NoRet
    /\ UNCHANGED <<args, files, session>>

NextPipe ==
    \/ date_hour_rerun
    \/ final_section_rerun

SpecPipe == InitPipe /\ [][NextPipe]_vars


\* the run synthesized the timestamp and reduced and refined the table
PipelineCompleted ==
    /\ op = "date_hour_rerun"
    /\ err = NoError

\* C15: on pipeline completion the resulting table has exactly the two
\* columns moment and consumption_kwh, also when every moment failed to
\* parse or every consumption value is missing.
C15_FinalTableHasBothColumns ==
    PipelineCompleted =>
        /\ NCols(table) = 2
        /\ {table.cols[j].name : j \in 1..NCols(table)}
               = {"moment", "consumption_kwh"}

\* row i of t gets a valid moment: its date reads as a date and the digit
\* groups of its hour text give fields in range
MomentValidAt(t, i) ==
    LET d == Column(t, args.date_col).vals[i]
        h == Column(t, args.hour_col).vals[i]
    IN  /\ ReadsAsDate(d)
        /\ h.k = "str"
        /\ ParsedFields(h.v) # <<>>
        /\ InRange(ParsedFields(h.v))

\* row i of t is empty in moment and in consumption_kwh
EmptyInBoth(t, i) ==
    /\ ~MomentValidAt(t, i)
    /\ CellIsEmpty(Column(t, "consumption_kwh").vals[i])

\* the number of rows above the bottom run of rows empty in both
RowsAboveBottomRun(t) ==
    LET keep == {i \in 1..NRows(t) : ~EmptyInBoth(t, i)}
    IN  IF keep = {} THEN 0 ELSE SetMax(keep)

\* C16: from synthesis to the final table the only rows removed are those
\* of the bottom contiguous run of rows empty in moment and consumption_kwh;
\* a row whose moment is invalid and that is not in that run is in the
\* final table, with an invalid moment.
C16_NoRowDroppedForItsTimestamp ==
    PipelineCompleted =>
        LET k == RowsAboveBottomRun(before)
        IN  /\ table.index = SubSeq(before.index, 1, k)
            /\ \A i \in 1..k :
                   ~MomentValidAt(before, i) =>
                       /\ \E j \in 1..NCols(table) : table.cols[j].name = "moment"
                       /\ Column(table, "moment").vals[i] = NA

\* C17: with the reduced table the run hands back the success rate of the
\* chosen strategy: (rows with a valid moment) / (rows) for date + hour.
C17_RatesHandedBack ==
    PipelineCompleted =>
        /\ "rate" \in DOMAIN ret
        /\ ret.rate.valid * NRows(before)
               = Cardinality({i \in 1..NRows(before) : MomentValidAt(before, i)})
                     * ret.rate.of

----------------------------------------------------------------------------
(* run_automatic_pipeline (src/app.py), from the table the reader returns  *)
(* to the result handed to the driver.  HeaderDetector and                 *)
(* ConsumptionColumnDetector are not among the sources: they are taken as  *)
(* the specification describes them, with the choices it leaves open (the  *)
(* header row, the detected column) made by the caller of the operator.    *)

\* consumption_col when no consumption column is detected
None == "<None>"

\* DataFrame.shape
Shape(t) == <<NRows(t), NCols(t)>>

\* the labels that can stand in a header row
LabelNames == DetectNames \cup {"moment", "consumption_kwh"}

\* the column name a label cell stands for
NameOfCell(x) == CHOOSE n \in LabelNames : Chars(n) = x.v

\* the rows of t that hold one distinct label per column
LabelRows(t) ==
    {h \in 1..NRows(t) :
        /\ \A j \in 1..NCols(t) :
               /\ CellAt(t, h, j).k = "str"
               /\ \E n \in LabelNames : Chars(n) = CellAt(t, h, j).v
        /\ \A j, l \in 1..NCols(t) :
               j # l => CellAt(t, h, j) # CellAt(t, h, l)}

\* HeaderDetector.apply_header with row h chosen: the rows up to h are
\* removed and the values of row h become the column names
ApplyHeader(t, h) ==
    LET body == TakeRows(t, (h + 1)..NRows(t))
    IN  [body EXCEPT !.cols =
            [j \in 1..NCols(t) |->
                [body.cols[j] EXCEPT !.name = NameOfCell(CellAt(t, h, j))]]]

\* ConsumptionColumnDetector.to_kwh, the table it leaves in cons_det.table:
\* without a detected column the conversion is skipped, with one the
\* converted values stand under consumption_kwh
ToKwh(t, consumptionCol) ==
    IF consumptionCol = None THEN t
    ELSE SetColumn(t, "consumption_kwh", "float64",
                   t.cols[ColPos(t, consumptionCol)].vals)

\* len(time_candidates) if time_candidates else 0
TimeCandidatesCount(candidates) ==
    IF candidates # <<>> THEN Len(candidates) ELSE 0

\* to_kwh called only when a column was detected
RunAutomaticPipelineSkipsToKwh(t, h, consumptionCol) ==
    LET clean1 == CleanTable(t)
        header == ApplyHeader(clean1, h)
        clean2 == CleanTable(header)
        final == ToKwh(clean2, consumptionCol)
        candidates == DetectTimeColumns(final)
    IN  [df_raw |-> t,
         df_processed |-> final,
         consumption_col |-> consumptionCol,
         time_candidates |-> candidates,
         summary |-> [raw_shape |-> Shape(t),
                      clean1_shape |-> Shape(clean1),
                      header_shape |-> Shape(header),
                      clean2_shape |-> Shape(clean2),
                      final_shape |-> Shape(final),
                      consumption_col |-> consumptionCol,
                      time_candidates_count |-> TimeCandidatesCount(candidates)],
         calls |-> IF consumptionCol = None
                   THEN <<"clean_table", "apply_header", "clean_table",
                          "detect_consumption_column", "detect_time_columns">>
                   ELSE <<"clean_table", "apply_header", "clean_table",
                          "detect_consumption_column", "to_kwh",
                          "detect_time_columns">>]

\* run_automatic_pipeline on the table t the reader returned, with header
\* row h and detected column consumptionCol: the returned dict, and the
\* methods called in order
RunAutomaticPipeline(t, h, consumptionCol) ==
    LET clean1 == CleanTable(t)
        header == ApplyHeader(clean1, h)
        clean2 == CleanTable(header)
        final == ToKwh(clean2, consumptionCol)
        candidates == DetectTimeColumns(final)
    IN  [df_raw |-> t,
         df_processed |-> final,
         consumption_col |-> consumptionCol,
         time_candidates |-> candidates,
         summary |-> [raw_shape |-> Shape(t),
                      clean1_shape |-> Shape(clean1),
                      header_shape |-> Shape(header),
                      clean2_shape |-> Shape(clean2),
                      final_shape |-> Shape(final),
                      consumption_col |-> consumptionCol,
                      time_candidates_count |-> TimeCandidatesCount(candidates)],
         calls |-> <<"clean_table", "apply_header", "clean_table",
                     "detect_consumption_column", "to_kwh",
                     "detect_time_columns">>]

\* pd.read_excel / pd.read_csv with header=None: positional column labels
PositionalNames == <<"0", "1", "2", "3">>

\* the raw grids: a row of distinct labels above zero or one data row
RawGrids(maxCols) ==
    UNION {{[index |-> RangeIndex(1 + r),
             cols |-> [j \in 1..c |->
                         [name |-> PositionalNames[j], dtype |-> "object",
                          vals |-> <<Str(Chars(names[j]))>> \o d[j]]]] :
               names \in {s \in [1..c -> DetectNames] : Injective(s)},
               d \in [1..c -> [1..r -> TallCells]]} :
           <<r, c>> \in (0..1) \X (1..maxCols)}

InitAuto ==
    /\ table \in RawGrids(MaxAutoCols)
    /\ columns = ColumnNames(table)
    /\ before = table
    /\ op = "init"
    /\ args = NoArgs
    /\ err = NoError
    /\ ret = NoRet
    /\ given = table
    /\ files = {}
    /\ session = NoSession

run_automatic_pipeline ==
    /\ op = "init"
    /\ \E h \in LabelRows(CleanTable(table)) :
       \E c \in {None} \cup {n \in DetectNames :
                    HasColumn(CleanTable(ApplyHeader(CleanTable(table), h)), n)} :
           LET results == RunAutomaticPipeline(table, h, c)
           IN  /\ table' = results.df_processed
               /\ ret' = results
               /\ columns' = ColumnNames(table')
    /\ before' = table
    /\ op' = "run_automatic_pipeline"
    /\ err' = NoError
    /\ UNCHANGED <<args, given, files, session>>

NextAuto == run_automatic_pipeline

SpecAuto == InitAuto /\ [][NextAuto]_vars

\* the names of the processed table that hold a keyword, in order
KeywordNames(t) == SelectSeq(ColumnNames(t), NameHasKeyword)

----------------------------------------------------------------------------
(* The frame the caller handed in.                                         *)

\* C19: every stage is a pure transform: no TableRefiner operation and no
\* synthesizer step modifies the table object it was given; in particular,
\* when a later synthesizer step fails, the caller's table still has its
\* original date and hour values.
C19_StagesLeaveTheGivenTable == [][given' = given]_vars

----------------------------------------------------------------------------
(* TableWriter (src/src/data_core/writer.py).  A path is the sequence of   *)
(* its components, a component and a file name the sequence of its         *)
(* characters; files holds the paths written so far.                       *)

\* self.output_dir: <project_root>/PreparedTables
OutputDir == <<<<"/">>, <<"r", "o", "o", "t">>, <<"P", "r", "e", "p", "a", "r", "e", "d", "T", "a", "b", "l", "e", "s">>>>

\* s.endswith(suffix)
EndsWith(s, suffix) ==
    Len(suffix) <= Len(s)
        /\ SubSeq(s, Len(s) - Len(suffix) + 1, Len(s)) = suffix

ValueError == [type |-> "ValueError"]

\* the check for '..' left out
ValidateUserFilenameNoDotDot(name) ==
    IF name = <<>> THEN ValueError
    ELSE IF Contains(name, <<"/">>) \/ Contains(name, <<"\\">>) THEN ValueError
    ELSE IF \/ EndsWith(Lower(name), <<".", "x", "l", "s", "x">>)
            \/ EndsWith(Lower(name), <<".", "c", "s", "v">>)
         THEN ValueError
    ELSE NoError

\* _validate_user_filename: the error it raises, or NoError
ValidateUserFilename(name) ==
    IF name = <<>> THEN ValueError
    ELSE IF Contains(name, <<"/">>) \/ Contains(name, <<"\\">>) THEN ValueError
    ELSE IF Contains(name, <<".", ".">>) THEN ValueError
    ELSE IF \/ EndsWith(Lower(name), <<".", "x", "l", "s", "x">>)
            \/ EndsWith(Lower(name), <<".", "c", "s", "v">>)
         THEN ValueError
    ELSE NoError

\* the components of a relative or absolute path text (empty and '.'
\* components dropped, as pathlib does)
RECURSIVE PathParts(_)
PathParts(s) ==
    IF s = <<>> THEN <<>>
    ELSE IF ~Contains(s, <<"/">>)
         THEN (IF s = <<".">> THEN <<>> ELSE <<s>>)
    ELSE LET p == CHOOSE i \in 1..Len(s) :
                      s[i] = "/" /\ \A q \in 1..(i - 1) : s[q] # "/"
             head == SubSeq(s, 1, p - 1)
         IN  (IF head = <<>> \/ head = <<".">> THEN <<>> ELSE <<head>>)
                 \o PathParts(SubSeq(s, p + 1, Len(s)))

\* dir / s
PathJoin(dir, s) ==
    IF s # <<>> /\ s[1] = "/" THEN <<<<"/">>>> \o PathParts(s)
    ELSE dir \o PathParts(s)

\* save, up to the write: [err, out_path]
Save(name, fmt) ==
    IF ValidateUserFilename(name) # NoError
    THEN [err |-> ValidateUserFilename(name), out_path |-> <<>>]
    ELSE LET fmt2 == Strip(Lower(fmt))
         IN  IF fmt2 \notin {<<"x", "l", "s", "x">>, <<"c", "s", "v">>}
             THEN [err |-> ValueError, out_path |-> <<>>]
             ELSE [err |-> NoError,
                   out_path |-> PathJoin(OutputDir, name \o <<".">> \o fmt2)]

NameChars == {"a", ".", "/"}

ExampleNames ==
    {<<"a", ".", "c", "s", "v">>,
     <<"a", ".", "C", "S", "V">>,
     <<"b", ".", "x", "l", "s", "x">>,
     <<"a", ".", "c", "s", "v", "x">>,
     <<".", ".", "/", "a">>,
     <<"/", "a">>,
     <<"a", "/", "b">>,
     <<"a", "\\", "b">>,
     <<"r", "e", "p", "o", "r", "t">>}

\* the base names save is called with
SaveNames(maxLen) == Strs(NameChars, maxLen) \cup ExampleNames

SaveFormats ==
    {<<"x", "l", "s", "x">>,
     <<"c", "s", "v">>,
     <<"X", "L", "S", "X">>,
     <<" ", "c", "s", "v", " ">>,
     <<"p", "d", "f">>,
     <<>>}

\* a final table
SavedTable ==
    [index |-> RangeIndex(1),
     cols |-> <<Column_("moment", "datetime64[ns]", <<Ts(0)>>),
                Column_("consumption_kwh", "float64", <<Int_(1)>>)>>]

InitSave ==
    /\ table = SavedTable
    /\ columns = ColumnNames(table)
    /\ before = table
    /\ op = "init"
    /\ args = NoArgs
    /\ err = NoError
    /\ ret = NoRet
    /\ given = table
    /\ files = {}
    /\ session = NoSession

save ==
    /\ Cardinality(files) < MaxFiles
    /\ \E name \in SaveNames(MaxNameLen), fmt \in SaveFormats :
           LET r == Save(name, fmt)
           IN  /\ args' = [name |-> name, fmt |-> fmt]
               /\ err' = r.err
               /\ IF r.err = NoError
                  THEN /\ files' = files \cup {r.out_path}
                       /\ ret' = [out_path |-> r.out_path]
                  ELSE /\ files' = files
                       /\ ret' = NoRet
    /\ before' = table
    /\ op' = "save"
    /\ UNCHANGED <<table, columns, given, session>>

NextSave == save

SpecSave == InitSave /\ [][NextSave]_vars


\* the text holds sub at some position
HoldsText(s, sub) ==
    \E i \in 1..(Len(s) - Len(sub) + 1) : SubSeq(s, i, i + Len(sub) - 1) = sub

\* the text ends in one of the two extensions, as written
EndsInExtension(s) ==
    \E e \in {<<".", "x", "l", "s", "x">>, <<".", "c", "s", "v">>} :
        Len(s) >= Len(e) /\ SubSeq(s, Len(s) - Len(e) + 1, Len(s)) = e

\* the base name has no separator and no parent-directory reference
NameStaysInside(name) ==
    /\ name # <<>>
    /\ ~HoldsText(name, <<"/">>)
    /\ ~HoldsText(name, <<"\\">>)
    /\ ~HoldsText(name, <<".", ".">>)

\* the path is a direct child of the output directory
DirectChild(path) ==
    /\ Len(path) = Len(OutputDir) + 1
    /\ SubSeq(path, 1, Len(OutputDir)) = OutputDir

\* C20, as claimed: save writes a file only when the base name is
\* non-empty, holds no '/', no '\' and no '..', does not end in .xlsx or
\* .csv, and the format is xlsx or csv; otherwise it raises ValueError and
\* writes nothing.  The file written is <output_dir>/<name>.<fmt>, the name
\* unmodified, a direct child of the output directory.
C20_SaveWritesOnlyValidatedNames ==
    [][op' = "save" =>
          IF /\ NameStaysInside(args'.name)
             /\ ~EndsInExtension(args'.name)
             /\ args'.fmt \in {<<"x", "l", "s", "x">>, <<"c", "s", "v">>}
          THEN /\ err' = NoError
               /\ ret'.out_path =
                      Append(OutputDir, args'.name \o <<".">> \o args'.fmt)
               /\ DirectChild(ret'.out_path)
               /\ files' = files \cup {ret'.out_path}
          ELSE /\ err' = ValueError
               /\ files' = files]_vars

\* C20, amended: the format is lower-cased and trimmed before it is
\* checked and used, and the extension check on the name ignores case:
\* save writes a file only when the base name is non-empty, holds no '/',
\* no '\' and no '..', does not end in .xlsx or .csv in any letter case,
\* and the lower-cased, trimmed format is xlsx or csv; otherwise it raises
\* ValueError and writes nothing.  The file written is
\* <output_dir>/<name>.<lower-cased, trimmed fmt>, the name unmodified, a
\* direct child of the output directory.
C20_SaveWritesOnlyValidatedNamesAnyCase ==
    [][op' = "save" =>
          IF /\ NameStaysInside(args'.name)
             /\ ~EndsInExtension(Lower(args'.name))
             /\ Strip(Lower(args'.fmt)) \in {<<"x", "l", "s", "x">>, <<"c", "s", "v">>}
          THEN /\ err' = NoError
               /\ ret'.out_path =
                      Append(OutputDir,
                             args'.name \o <<".">> \o Strip(Lower(args'.fmt)))
               /\ DirectChild(ret'.out_path)
               /\ files' = files \cup {ret'.out_path}
          ELSE /\ err' = ValueError
               /\ files' = files]_vars

C20_Witness ==
    /\ op = "save"
    /\ args = [name |-> <<"a", ".", "a">>, fmt |-> <<"X", "L", "S", "X">>]
    /\ err = NoError
    /\ ret.out_path = Append(OutputDir, <<"a", ".", "a", ".", "x", "l", "s", "x">>)
    /\ files = {ret.out_path}

----------------------------------------------------------------------------
(* The interval alignment applied again: the driver runs                   *)
(* shift_moment_minus_15_if_first15_last00 on every rerun of step 1        *)
(* (src/app.py, lines 476-480).                                            *)

\* C24: the interval alignment is idempotent: applying it to a table it
\* has been applied to gives that table again, so over any number of
\* reruns the moment values are shifted back by at most 15 minutes in total.
C24_ShiftIdempotent ==
    /\ [](op = "shift_moment_minus_15_if_first15_last00"
             => ShiftMoment(table, "moment") = table)
    /\ [][op = "shift_moment_minus_15_if_first15_last00" => table' = table]_vars

\* the alignment has run on a table it had shifted by the run before
C24_Witness ==
    /\ op = "shift_moment_minus_15_if_first15_last00"
    /\ before = table
    /\ NRows(table) = 3
    /\ \E j \in 1..NCols(table) : table.cols[j].name = "moment"
    /\ Column(table, "moment").dtype = "datetime64[ns]"
    /\ Column(table, "moment").vals = <<Ts(3600), NA, Ts(85500)>>

----------------------------------------------------------------------------
(* The shapes _to_hhmmss accepts.                                          *)

\* the text is of a listed shape: one digit run of length 1, 2, 3, 4 or 6,
\* or exactly two or exactly three digit groups
ListedShape(s) ==
    LET g == DigitGroups(s, <<>>)
    IN  \/ Len(g) = 1 /\ Len(g[1]) \in {1, 2, 3, 4, 6}
        \/ Len(g) \in {2, 3}

\* C25: a text cell gives a valid output only if it is of a listed shape;
\* a digit run of length 5 or of length 7 or more and a cell with four or
\* more separated parts give the invalid marker, not a value built from
\* the first three parts.
C25_OnlyListedShapesAccepted ==
    HourNormalized =>
        \A i \in 1..NRows(before) :
            HourIn(i).k = "str" =>
                /\ HourOut(i) # NA => ListedShape(HourIn(i).v)
                /\ Len(DigitGroups(HourIn(i).v, <<>>)) >= 4 => HourOut(i) = NA

----------------------------------------------------------------------------
(* The order of the stages in a run of the driver.                         *)

\* t has been reduced to the canonical columns and refined
ReducedAndRefined(t) ==
    /\ {t.cols[j].name : j \in 1..NCols(t)} \subseteq {"moment", "consumption_kwh"}
    /\ DropEmptyColumns(DropTrailingEmptyRows(t)) = t

\* C21: the stages run in the order refine, header-detect, refine,
\* consumption-detect+convert, time-detect, selection, timestamp-synthesize,
\* reduce-to-canonical-columns, refine, interval-align; the interval
\* alignment is applied only to a table that has been synthesized, reduced
\* to the canonical columns and refined: it changes no other table.
C21_AlignOnlyAfterReduceAndRefine ==
    /\ op = "date_hour_rerun" =>
           \A b \in {DateHourBranch(before, args.date_col, args.hour_col)} :
               ShiftMoment(b.table, "moment") # b.table
                   => b.err = NoError /\ ReducedAndRefined(b.table)
    /\ op = "final_section_rerun" =>
           (ShiftMoment(before, "moment") # before => ReducedAndRefined(before))

----------------------------------------------------------------------------
(* The driver (src/app.py) as the session it keeps between script runs.    *)
(* session is st.session_state together with the values of the widgets on  *)
(* the page; table is st.session_state.df_processed.  One action is one    *)
(* interaction of the user: the script run it triggers and, where that run *)
(* calls st.rerun(), the run that follows.  df_raw, the log, the temporary *)
(* upload file and the plots do not enter the decisions modelled here and  *)
(* are left out; Preference_SingleDateTime is not among the sources and is *)
(* taken as the specification describes Strategy A.                        *)

\* df_processed = None
NoFrame == [none |-> TRUE]

\* the options of the two radios and the one option of the third
FromToMode == "These two columns represent a start and end time"
DateHourMode == "These two columns together form a single timestamp"
SingleMode == "It contains both date and hour information"

\* no widget interaction: a rerun the script asked for
NoEvent == [kind |-> "none"]

NoSynth == [kind |-> "none"]

\* the widget values of a page on which nothing was chosen
NoWidgets ==
    [checked |-> {}, pair_radio |-> None, date_col_radio |-> None,
     from_col_radio |-> None, rendered |-> {"file_uploader"}]

\* init_state
Defaults ==
    [step |-> 0,
     consumption_col |-> None,
     time_candidates |-> <<>>,
     time_selected |-> <<>>,
     time_pair_mode |-> None,
     time_from_col |-> None,
     time_to_col |-> None,
     date_col |-> None,
     time_col |-> None,
     save_name |-> <<>>,
     saved_path |-> <<>>,
     time_cols_confirmed |-> FALSE,
     time_selected_snapshot |-> <<>>,
     single_mode_confirmed |-> FALSE,
     single_mode_value |-> None,
     pair_mode_confirmed |-> FALSE,
     pair_mode_value |-> None,
     from_to_confirmed |-> FALSE,
     from_col_snapshot |-> None,
     to_col_snapshot |-> None,
     date_hour_confirmed |-> FALSE,
     date_col_snapshot |-> None,
     time_col_snapshot |-> None,
     widgets |-> NoWidgets]

\* the state of one script run: the session and the table as the run has
\* left them so far, the interaction that triggered the run, what the run
\* did (synth, saved, message, err), the widgets it has put on the page and
\* whether it has called st.rerun()
StartRun(s, t, f, ev) ==
    [s |-> s, table |-> t, files |-> f, ev |-> ev, synth |-> NoSynth,
     saved |-> NoFrame, message |-> None, err |-> NoError,
     rendered |-> {}, stop |-> FALSE]

\* the other one of a pair
Other(c, c1, c2) == IF c = c1 THEN c2 ELSE c1

\* STEP 0: with an uploaded file the automatic pipeline runs (header row
\* and detected column as the two missing detectors choose them), the
\* session is reset around its results and the script asks for a rerun
UploadStage(x) ==
    IF x.ev.kind # "upload"
    THEN [x EXCEPT !.rendered = @ \cup {"file_uploader"}]
    ELSE [x EXCEPT
             !.table = RunAutomaticPipeline(x.ev.grid, x.ev.header,
                                            x.ev.consumption).df_processed,
             !.s = [Defaults EXCEPT
                       !.step = 1,
                       !.consumption_col = x.ev.consumption,
                       !.time_candidates =
                           RunAutomaticPipeline(x.ev.grid, x.ev.header,
                                                x.ev.consumption).time_candidates,
                       !.widgets = x.s.widgets],
             !.stop = TRUE]

\* the checkboxes and "Confirm selection", with the reset of the
\* confirmation on a changed selection left out
SelectionStageNoReset(x) ==
    IF x.stop \/ x.s.time_candidates = <<>> THEN x
    ELSE LET candidates == x.s.time_candidates
             new_selected ==
                 Pick(candidates, {i \in 1..Len(candidates) :
                                      candidates[i] \in x.s.widgets.checked}, 1)
             s1 == [x.s EXCEPT !.time_selected = new_selected]
         IN  IF new_selected # <<>>
             THEN IF x.ev.kind = "confirm_selection"
                  THEN [x EXCEPT
                           !.s = [s1 EXCEPT
                                     !.time_cols_confirmed = TRUE,
                                     !.time_selected_snapshot = new_selected],
                           !.rendered = @ \cup {"checkbox", "confirm_selection"},
                           !.stop = TRUE]
                  ELSE [x EXCEPT
                           !.s = s1,
                           !.rendered = @ \cup {"checkbox", "confirm_selection"}]
             ELSE [x EXCEPT
                      !.s = [s1 EXCEPT !.time_cols_confirmed = FALSE,
                                       !.time_selected_snapshot = <<>>],
                      !.rendered = @ \cup {"checkbox"}]

\* lines 269-304: the checkboxes and "Confirm selection"
SelectionStage(x) ==
    IF x.stop \/ x.s.time_candidates = <<>> THEN x
    ELSE LET candidates == x.s.time_candidates
             new_selected ==
                 Pick(candidates, {i \in 1..Len(candidates) :
                                      candidates[i] \in x.s.widgets.checked}, 1)
             s1 == [x.s EXCEPT
                       !.time_cols_confirmed =
                           IF new_selected # x.s.time_selected_snapshot
                           THEN FALSE ELSE @,
                       !.time_selected = new_selected]
         IN  IF new_selected # <<>>
             THEN IF x.ev.kind = "confirm_selection"
                  THEN [x EXCEPT
                           !.s = [s1 EXCEPT
                                     !.time_cols_confirmed = TRUE,
                                     !.time_selected_snapshot = new_selected],
                           !.rendered = @ \cup {"checkbox", "confirm_selection"},
                           !.stop = TRUE]
                  ELSE [x EXCEPT
                           !.s = s1,
                           !.rendered = @ \cup {"checkbox", "confirm_selection"}]
             ELSE [x EXCEPT
                      !.s = [s1 EXCEPT !.time_cols_confirmed = FALSE,
                                       !.time_selected_snapshot = <<>>],
                      !.rendered = @ \cup {"checkbox"}]

\* Strategy A on column datetimeCol, then the reduction and the two
\* trimming steps: [table, err]
SingleDateTimeBranch(df, datetimeCol) ==
    IF ~HasColumn(df, datetimeCol)
    THEN [table |-> df, err |-> [type |-> "KeyError", missing |-> <<datetimeCol>>]]
    ELSE LET s == df.cols[ColPos(df, datetimeCol)]
             dt == [i \in 1..NRows(df) |->
                       IF s.vals[i].k = "ts" THEN s.vals[i]
                       ELSE IF s.vals[i].k = "str" THEN ParseMomentCell(s.vals[i])
                       ELSE NA]
             synthesized == SetColumn(df, "moment", "datetime64[ns]", dt)
             missing == MissingColumns(synthesized, "moment", "consumption_kwh")
         IN  IF missing # <<>>
             THEN [table |-> df, err |-> [type |-> "KeyError", missing |-> missing]]
             ELSE [table |-> DropEmptyColumns(DropTrailingEmptyRows(
                                 KeepOnly(synthesized, "moment", "consumption_kwh"))),
                   err |-> NoError]

\* the run after a try block that left b: the synthesis it made, with the
\* session as it was when the try block was entered, and its outcome
AfterSynthesis(x, kind, cols, b, failed) ==
    [x EXCEPT
        !.synth = [kind |-> kind, cols |-> cols, gates |-> x.s],
        !.table = b.table,
        !.err = b.err,
        !.message = IF b.err = NoError THEN SuccessMessage.message ELSE failed]

\* lines 306-351: one selected column
SingleStage(x) ==
    IF x.stop \/ x.s.time_candidates = <<>>
          \/ ~(x.s.time_cols_confirmed /\ Len(x.s.time_selected) = 1)
    THEN x
    ELSE LET single_col == x.s.time_selected[1]
             s1 == [x.s EXCEPT
                       !.single_mode_confirmed =
                           IF x.s.single_mode_value # SingleMode THEN FALSE ELSE @,
                       !.single_mode_value = SingleMode]
         IN  IF x.ev.kind = "confirm_interpretation"
             THEN [x EXCEPT !.s = [s1 EXCEPT !.single_mode_confirmed = TRUE],
                            !.rendered = @ \cup {"confirm_interpretation"},
                            !.stop = TRUE]
             ELSE IF ~s1.single_mode_confirmed
             THEN [x EXCEPT !.s = s1,
                            !.rendered = @ \cup {"confirm_interpretation"},
                            !.message = "Confirm the interpretation to proceed."]
             ELSE CHOOSE r \in
                      {AfterSynthesis(
                           [x EXCEPT !.s = s1,
                                     !.rendered = @ \cup {"confirm_interpretation"}],
                           "single", <<single_col>>, b,
                           "I couldn't normalize the single datetime column") :
                          b \in {SingleDateTimeBranch(x.table, single_col)}} : TRUE

\* lines 353-381: two selected columns, the radio of the interpretation
PairModeStage(x) ==
    IF x.stop \/ x.s.time_candidates = <<>>
          \/ ~(x.s.time_cols_confirmed /\ Len(x.s.time_selected) = 2)
    THEN x
    ELSE LET mode == IF x.s.widgets.pair_radio = None THEN DateHourMode
                     ELSE x.s.widgets.pair_radio
             s1 == [x.s EXCEPT
                       !.time_pair_mode = mode,
                       !.pair_mode_confirmed =
                           IF x.s.pair_mode_value # mode THEN FALSE ELSE @,
                       !.pair_mode_value = mode,
                       !.widgets.pair_radio = mode]
         IN  IF x.ev.kind = "confirm_interpretation"
             THEN [x EXCEPT !.s = [s1 EXCEPT !.pair_mode_confirmed = TRUE],
                            !.rendered = @ \cup {"pair_radio", "confirm_interpretation"},
                            !.stop = TRUE]
             ELSE [x EXCEPT !.s = s1,
                            !.rendered = @ \cup {"pair_radio", "confirm_interpretation"},
                            !.message = IF ~s1.pair_mode_confirmed
                                        THEN "Confirm the interpretation to continue."
                                        ELSE @]

\* the pair section is entered and its interpretation is confirmed as mode
InPairMode(x, mode) ==
    /\ ~x.stop
    /\ x.s.time_candidates # <<>>
    /\ x.s.time_cols_confirmed
    /\ Len(x.s.time_selected) = 2
    /\ x.s.pair_mode_confirmed
    /\ x.s.time_pair_mode = mode

\* lines 383-412: the from -> to mapping
FromToStage(x) ==
    IF ~InPairMode(x, FromToMode) THEN x
    ELSE LET c1 == x.s.time_selected[1]
             c2 == x.s.time_selected[2]
             from_col == IF x.s.widgets.from_col_radio \in {c1, c2}
                         THEN x.s.widgets.from_col_radio ELSE c1
             to_col == Other(from_col, c1, c2)
             s1 == [x.s EXCEPT
                       !.time_from_col = from_col,
                       !.time_to_col = to_col,
                       !.widgets.from_col_radio = from_col,
                       !.from_to_confirmed =
                           IF from_col # x.s.from_col_snapshot
                                  \/ to_col # x.s.to_col_snapshot
                           THEN FALSE ELSE @]
         IN  IF x.ev.kind = "confirm_from_to"
             THEN [x EXCEPT !.s = [s1 EXCEPT !.from_to_confirmed = TRUE,
                                             !.from_col_snapshot = from_col,
                                             !.to_col_snapshot = to_col],
                            !.rendered = @ \cup {"from_col_radio", "confirm_from_to"},
                            !.stop = TRUE]
             ELSE [x EXCEPT !.s = s1,
                            !.rendered = @ \cup {"from_col_radio", "confirm_from_to"},
                            !.message = IF ~s1.from_to_confirmed
                                        THEN "Confirm from/to to proceed."
                                        ELSE @]

\* lines 414-469: the date + hour mapping and, once it is confirmed, the
\* synthesis
DateHourStage(x) ==
    IF ~InPairMode(x, DateHourMode) THEN x
    ELSE LET c1 == x.s.time_selected[1]
             c2 == x.s.time_selected[2]
             date_col == IF x.s.widgets.date_col_radio \in {c1, c2}
                         THEN x.s.widgets.date_col_radio ELSE c1
             hour_col == Other(date_col, c1, c2)
             s1 == [x.s EXCEPT
                       !.date_col = date_col,
                       !.time_col = hour_col,
                       !.widgets.date_col_radio = date_col,
                       !.date_hour_confirmed =
                           IF date_col # x.s.date_col_snapshot
                                  \/ hour_col # x.s.time_col_snapshot
                           THEN FALSE ELSE @]
         IN  IF x.ev.kind = "confirm_date_hour"
             THEN [x EXCEPT !.s = [s1 EXCEPT !.date_hour_confirmed = TRUE,
                                             !.date_col_snapshot = date_col,
                                             !.time_col_snapshot = hour_col],
                            !.rendered = @ \cup {"date_col_radio", "confirm_date_hour"},
                            !.stop = TRUE]
             ELSE IF ~s1.date_hour_confirmed
             THEN [x EXCEPT !.s = s1,
                            !.rendered = @ \cup {"date_col_radio", "confirm_date_hour"},
                            !.message = "Confirm date/hour to proceed with merging & parsing."]
             ELSE CHOOSE r \in
                      {AfterSynthesis(
                           [x EXCEPT !.s = s1,
                                     !.rendered = @ \cup {"date_col_radio",
                                                          "confirm_date_hour"}],
                           "date_hour", <<date_col, hour_col>>, b,
                           ErrorMessage.message) :
                          b \in {DateHourBranch(x.table, date_col, hour_col)}} : TRUE

\* lines 581-598: the run after writer.save_xlsx / save_csv was handed the
\* table and returned or raised w
AfterSave(x, w) ==
    [x EXCEPT
        !.saved = x.table,
        !.err = w.err,
        !.files = IF w.err = NoError THEN @ \cup {w.out_path} ELSE @,
        !.s.saved_path = IF w.err = NoError THEN w.out_path ELSE @,
        !.message = IF w.err = NoError THEN "Saved! File written to"
                    ELSE "Could not save file"]

\* lines 474-598: the interval alignment, final_ready, the two trimming
\* steps, the name and the two save buttons
FinalStage(x) ==
    IF x.stop THEN x
    ELSE IF ~FinalReady(ShiftMoment(x.table, "moment"))
    THEN [x EXCEPT !.table = ShiftMoment(x.table, "moment")]
    ELSE LET save_name == IF x.ev.kind = "type_name" THEN x.ev.name
                          ELSE x.s.save_name
             save_disabled == Strip(save_name) = <<>>
             ready == [x EXCEPT
                          !.table = FinalSection(x.table),
                          !.s.save_name = save_name,
                          !.rendered = @ \cup {"save_name"}
                                         \cup (IF save_disabled THEN {}
                                               ELSE {"save"})]
         IN  IF x.ev.kind = "save" /\ ~save_disabled
             THEN CHOOSE r \in {AfterSave(y, w) :
                                   y \in {ready},
                                   w \in {Save(Strip(save_name), x.ev.fmt)}} : TRUE
             ELSE ready

\* lines 600-650: "Back to upload" and "Continue (next step)"
TailStage(x) ==
    IF x.stop THEN x
    ELSE IF x.ev.kind = "back_to_upload"
    THEN [x EXCEPT !.s = [Defaults EXCEPT !.widgets = x.s.widgets],
                   !.table = NoFrame,
                   !.stop = TRUE]
    ELSE [x EXCEPT
             !.rendered = @ \cup {"back_to_upload"}
                            \cup (IF Len(x.s.time_selected) = 0
                                        \/ ~x.s.time_cols_confirmed
                                  THEN {} ELSE {"continue"}),
             !.message = IF x.ev.kind = "continue" THEN "Next step" ELSE @]

\* one run of the script
Script(x) ==
    IF x.s.step = 0 THEN UploadStage(x)
    ELSE CHOOSE r \in
             {TailStage(x6) : x6 \in
             {FinalStage(x5) : x5 \in
             {DateHourStage(x4) : x4 \in
             {FromToStage(x3) : x3 \in
             {PairModeStage(x2) : x2 \in
             {SingleStage(x1) : x1 \in {SelectionStage(x)}}}}}}} : TRUE

\* the run that follows st.rerun(): no button is pressed in it
Rerun(x) ==
    IF x.stop THEN Script([x EXCEPT !.ev = NoEvent, !.stop = FALSE, !.rendered = {}])
    ELSE x

\* the end of a run: the values of the widgets the run did not put on the
\* page are forgotten
EndRun(x) ==
    [x EXCEPT !.s.widgets =
        [checked |-> IF "checkbox" \in x.rendered THEN @.checked ELSE {},
         pair_radio |-> IF "pair_radio" \in x.rendered THEN @.pair_radio ELSE None,
         date_col_radio |-> IF "date_col_radio" \in x.rendered
                            THEN @.date_col_radio ELSE None,
         from_col_radio |-> IF "from_col_radio" \in x.rendered
                            THEN @.from_col_radio ELSE None,
         rendered |-> x.rendered]]

\* the interaction ev on the page of session s with the widget values w
Interaction(w, ev) ==
    \E x \in {EndRun(x3) : x3 \in
              {Rerun(x2) : x2 \in
              {Script(x1) : x1 \in
              {StartRun([session EXCEPT !.widgets = w], table, files, ev)}}}} :
        /\ session' = x.s
        /\ table' = x.table
        /\ files' = x.files
        /\ given' = x.table
        /\ columns' = IF x.table = NoFrame THEN <<>> ELSE ColumnNames(x.table)
        /\ before' = table
        /\ op' = ev.kind
        /\ args' = ev
        /\ err' = x.err
        /\ ret' = [synth |-> x.synth, saved |-> x.saved, message |-> x.message]

\* a column of a file read with header=None: the label above the values
RawColumn(j, label, vals) ==
    [name |-> PositionalNames[j], dtype |-> "object",
     vals |-> <<Str(Chars(label))>> \o vals]

\* an uploaded file with a date, an hour and a consumption column of two
\* rows, and the consumption column detected in it
DateAndHourFile(consumption) ==
    [grid |-> [index |-> RangeIndex(3),
               cols |-> <<RawColumn(1, "Datum", <<Str(DateStr(0)), Str(DateStr(0))>>),
                          RawColumn(2, " Zeit ", <<Str(<<"0", ":", "1", "5">>),
                                                  Str(<<"1", ":", "0", "0">>)>>),
                          RawColumn(3, "kWh", <<Int_(1), Int_(2)>>)>>],
     header |-> 1, consumption |-> consumption]

\* the uploaded files: the date and hour file with and without a detected
\* consumption column, and a combined date and time beside a consumption
\* column
UploadedFiles ==
    {DateAndHourFile(c) : c \in {None, "kWh"}}
    \cup
    {[grid |-> [index |-> RangeIndex(3),
                cols |-> <<RawColumn(1, "TIME",
                               <<Str(DateStr(0) \o <<" ">> \o TimeStr(900)),
                                 Str(DateStr(0) \o <<" ">> \o TimeStr(3600))>>),
                           RawColumn(2, "kWh", <<Int_(1), Int_(2)>>)>>],
      header |-> 1, consumption |-> "kWh"]}

\* uploaded files that already carry the two canonical names: of one row
\* and of two rows, the cells of a column or of a row blank or filled
CanonicalFiles ==
    {[grid |-> [index |-> RangeIndex(1 + r),
                cols |-> <<RawColumn(1, "moment", m),
                           RawColumn(2, "consumption_kwh", k)>>],
      header |-> 1, consumption |-> None] :
        <<r, m, k>> \in UNION {{r} \X [1..r -> {Str(<<" ">>), Ts(900)}]
                                   \X [1..r -> {Str(<<" ">>), Int_(1)}] :
                                r \in 1..2}}

\* the uploaded files of the sessions that save
FinalFiles == CanonicalFiles \cup {DateAndHourFile("kWh")}

\* the names typed into "Table name (no extension)"
TypedNames == {<<>>, <<" ">>, <<"a">>}

InitSession ==
    /\ session = Defaults
    /\ table = NoFrame
    /\ columns = <<>>
    /\ before = NoFrame
    /\ op = "init"
    /\ args = NoArgs
    /\ err = NoError
    /\ ret = NoRet
    /\ given = NoFrame
    /\ files = {}

\* a widget of the page the last run left
OnPage(widget) == widget \in session.widgets.rendered

\* a file of the set is uploaded
UploadOf(uploaded) ==
    /\ OnPage("file_uploader")
    /\ \E file \in uploaded :
           Interaction(session.widgets,
                       [kind |-> "upload", grid |-> file.grid,
                        header |-> file.header, consumption |-> file.consumption])

upload == UploadOf(UploadedFiles)

upload_final == UploadOf(FinalFiles)

toggle_checkbox ==
    /\ OnPage("checkbox")
    /\ \E i \in 1..Len(session.time_candidates) :
           LET c == session.time_candidates[i]
           IN  Interaction([session.widgets EXCEPT
                               !.checked = IF c \in @ THEN @ \ {c} ELSE @ \cup {c}],
                           [kind |-> "toggle_checkbox", col |-> c])

confirm_selection ==
    /\ OnPage("confirm_selection")
    /\ Interaction(session.widgets, [kind |-> "confirm_selection"])

choose_pair_mode ==
    /\ OnPage("pair_radio")
    /\ \E mode \in {FromToMode, DateHourMode} \ {session.widgets.pair_radio} :
           Interaction([session.widgets EXCEPT !.pair_radio = mode],
                       [kind |-> "choose_pair_mode", mode |-> mode])

confirm_interpretation ==
    /\ OnPage("confirm_interpretation")
    /\ Interaction(session.widgets, [kind |-> "confirm_interpretation"])

choose_from_col ==
    /\ OnPage("from_col_radio")
    /\ \E i \in 1..Len(session.time_selected) :
           /\ session.time_selected[i] # session.widgets.from_col_radio
           /\ Interaction([session.widgets EXCEPT
                              !.from_col_radio = session.time_selected[i]],
                          [kind |-> "choose_from_col",
                           col |-> session.time_selected[i]])

confirm_from_to ==
    /\ OnPage("confirm_from_to")
    /\ Interaction(session.widgets, [kind |-> "confirm_from_to"])

choose_date_col ==
    /\ OnPage("date_col_radio")
    /\ \E i \in 1..Len(session.time_selected) :
           /\ session.time_selected[i] # session.widgets.date_col_radio
           /\ Interaction([session.widgets EXCEPT
                              !.date_col_radio = session.time_selected[i]],
                          [kind |-> "choose_date_col",
                           col |-> session.time_selected[i]])

confirm_date_hour ==
    /\ OnPage("confirm_date_hour")
    /\ Interaction(session.widgets, [kind |-> "confirm_date_hour"])

type_name ==
    /\ OnPage("save_name")
    /\ \E name \in TypedNames \ {session.save_name} :
           Interaction(session.widgets, [kind |-> "type_name", name |-> name])

save_table ==
    /\ OnPage("save")
    /\ Cardinality(files) < MaxFiles
    /\ \E fmt \in {<<"x", "l", "s", "x">>, <<"c", "s", "v">>} :
           Interaction(session.widgets, [kind |-> "save", fmt |-> fmt])

back_to_upload ==
    /\ OnPage("back_to_upload")
    /\ Interaction(session.widgets, [kind |-> "back_to_upload"])

continue_next_step ==
    /\ OnPage("continue")
    /\ Interaction(session.widgets, [kind |-> "continue"])

\* the session up to the synthesis: the selection of the time columns,
\* their interpretation and the mappings
NextSession ==
    \/ upload
    \/ toggle_checkbox
    \/ confirm_selection
    \/ choose_pair_mode
    \/ confirm_interpretation
    \/ choose_from_col
    \/ confirm_from_to
    \/ choose_date_col
    \/ confirm_date_hour
    \/ back_to_upload
    \/ continue_next_step

SpecSession == InitSession /\ [][NextSession]_vars

\* the session up to the saved file: on a table that is final on upload
\* or after the date + hour synthesis in the order the page proposes
NextFinal ==
    \/ upload_final
    \/ toggle_checkbox
    \/ confirm_selection
    \/ confirm_interpretation
    \/ confirm_date_hour
    \/ type_name
    \/ save_table
    \/ back_to_upload

SpecFinal == InitSession /\ [][NextFinal]_vars


----------------------------------------------------------------------------
(* The confirm gates of the driver.                                        *)

\* C22: timestamp synthesis runs in a script run only while
\* time_cols_confirmed is true and the checkbox selection is non-empty and
\* equal to time_selected_snapshot, and the date + hour synthesis only while
\* date_hour_confirmed is true as well, on the pair (date_col_snapshot,
\* time_col_snapshot); a selection that differs from the snapshot leaves
\* time_cols_confirmed false, and only "Confirm selection" sets it true
C22_ConfirmGate ==
    /\ [](op # "init" /\ ret.synth.kind # "none" =>
            /\ ret.synth.gates.time_cols_confirmed
            /\ ret.synth.gates.time_selected # <<>>
            /\ ret.synth.gates.time_selected = ret.synth.gates.time_selected_snapshot
            /\ ret.synth.kind = "date_hour" =>
                   /\ ret.synth.gates.date_hour_confirmed
                   /\ ret.synth.cols = <<ret.synth.gates.date_col_snapshot,
                                         ret.synth.gates.time_col_snapshot>>)
    /\ [](session.time_cols_confirmed =>
            /\ session.time_selected # <<>>
            /\ session.time_selected = session.time_selected_snapshot)
    /\ [][~session.time_cols_confirmed /\ session'.time_cols_confirmed
             => op' = "confirm_selection"]_vars

\* the date + hour synthesis has run after "Confirm date/hour" and left the
\* final table
C22_Witness ==
    /\ op = "confirm_date_hour"
    /\ ret.synth.kind = "date_hour"
    /\ ret.synth.cols = <<"Datum", " Zeit ">>
    /\ err = NoError
    /\ FinalReady(table)


\* C26: when "Confirm selection" replaces a confirmed selection of time
\* columns by a different one, no timestamp synthesis runs in that
\* interaction: the interpretation has to be confirmed again first
C26_InterpretationNotCarriedOver ==
    [][/\ op' = "confirm_selection"
       /\ session.time_selected_snapshot # <<>>
       /\ session'.time_selected_snapshot # session.time_selected_snapshot
       => ret'.synth.kind = "none"]_vars


----------------------------------------------------------------------------
(* The table handed to the writer.                                         *)

\* set(df.columns)
ColumnSet(df) == {df.cols[j].name : j \in 1..NCols(df)}

\* C23: the table handed to the writer has exactly the columns moment and
\* consumption_kwh and at least one row: a save happens only from a
\* processed table with exactly these two columns and a row, the trimming
\* between final_ready and the save removes no column and not all rows, and
\* the save buttons are enabled only while the trimmed name is not blank
C23_WriterGetsFinalTable ==
    /\ op = "save" /\ ret.saved # NoFrame =>
           /\ ColumnSet(before) = {"moment", "consumption_kwh"}
           /\ NRows(before) > 0
           /\ ColumnSet(ret.saved) = {"moment", "consumption_kwh"}
           /\ NRows(ret.saved) >= 1
           /\ Strip(session.save_name) # <<>>
    /\ op # "init" /\ "save" \in session.widgets.rendered =>
           /\ Strip(session.save_name) # <<>>
           /\ ColumnSet(table) = {"moment", "consumption_kwh"}
           /\ NRows(table) >= 1

\* the table the date + hour synthesis made is handed to the writer under
\* the name "a" and trimmed of nothing
C23_Witness ==
    /\ op = "save"
    /\ session.time_cols_confirmed
    /\ session.date_hour_confirmed
    /\ session.save_name = <<"a">>
    /\ ret.saved = table
    /\ ret.saved = before
    /\ NRows(ret.saved) = 2
    /\ err = NoError
    /\ files # {}

=============================================================================
